---- MODULE Spec2Model ----
(***************************************************************************)
(* State-machine model of the blocktrain contracts:                        *)
(*   UserDeviceManagerFactory.sol  (the directory of per-user registries)  *)
(*   UserDeviceManager.sol         (devices and app permissions of a user) *)
(*   MockUniqueId                  (the proof verifier used by the scripts)*)
(* Every external entry point is one action.  A transaction that reverts   *)
(* discards all its writes, as the EVM does.                               *)
(***************************************************************************)
EXTENDS Integers, Sequences, FiniteSets, TLC

(***************************************************************************)
(* Bounds of the exploration.  Spec explores the whole system (a factory   *)
(* and several instances) over small device alphabets; SpecRegistry        *)
(* explores one instance over the full device and app alphabets.           *)
(***************************************************************************)
MaxContracts == 2      \* Spec: successful deployUserDeviceManager calls
SysMaxDevices == 1     \* Spec: successful addDevice calls, all instances
SysMaxApps == 1        \* Spec: app permission entries, all instances
RegMaxContracts == 1   \* SpecRegistry: instances deployed
MaxDevices == 2        \* SpecRegistry: successful addDevice calls
MaxApps == 2           \* SpecRegistry: app permission entries

(***************************************************************************)
(* Input alphabets.  Strings are sequences of characters so that           *)
(* abi.encodePacked is concatenation.                                      *)
(***************************************************************************)
ZeroAddress == "0x0"
FactoryOwner == "fo"
Callers == {"fo", "u1", "u2"}
Users == {ZeroAddress, "u1", "u2"}
EnsDomains == {<<"a">>, <<"b">>}
UserNullifiers == {7}
ContractAddresses == <<"c1", "c2", "c3", "c4">>
\* (model, deviceAddress, deviceNullifier) triples: each field varies once
DeviceInputs ==
    { <<<<"p">>, "d1", 42>>, <<<<"w">>, "d1", 42>>,
      <<<<"p">>, "d2", 42>>, <<<<"p">>, "d1", 43>> }
\* the devices that app calls name
AppDeviceInputs == { <<<<"p">>, "d1", 42>>, <<<<"w">>, "d1", 42>> }
Roots == {1}
ProofNullifiers == {101, 102}
Proofs == {"valid", "forged"}
AppIds == {<<"x">>, <<"y">>}
Permissions == {0, 3, 4}
Verifiers == {"MockUniqueId", "UniqueId"}
\* the alphabets of SpecRegistry's single instance, and of Spec's instances
RegCallers == {"fo", "u1"}
RegUsers == {"u1"}
RegDomains == {<<"a">>}
SysDeviceInputs == { <<<<"p">>, "d1", 42>> }
SysProofNullifiers == {101}
SysProofs == {"valid"}
SysAppIds == {<<"x">>}
SysPermissions == {3}

VARIABLES
    owner,          \* UserDeviceManagerFactory.owner
    uniqueId,       \* UserDeviceManagerFactory.uniqueId (which verifier)
    userContracts,  \* mapping(address => address)
    domainToUser,   \* mapping(string => address)
    allContracts,   \* address[]
    managers,       \* the deployed UserDeviceManager instances, by address
    ens,            \* the records written to the L2Registry collaborator
    lastCall,       \* the last transaction: its entry point, how it ended, and
                    \* whether the record it addressed existed when it was sent
    retry,          \* register page: one execution of withRetry
    flow,           \* register page: runFullFlow, its guard and the wallet's chain
    wallet,         \* register page: connection state and ENS lookups
    route,          \* ENS API route: one GET request
    deriver         \* L2AddressDeriver: one call

vars == <<owner, uniqueId, userContracts, domainToUser, allContracts,
          managers, ens, lastCall, retry, flow, wallet, route, deriver>>

\* the state of the contracts, and the state outside the chain
chainVars == <<owner, uniqueId, userContracts, domainToUser, allContracts,
               managers, ens, lastCall>>

offchainVars == <<retry, flow, wallet, route, deriver>>

\* what the steps of each of the other programs leave alone
exceptRetry == <<chainVars, flow, wallet, route, deriver>>

exceptFlow == <<chainVars, retry, wallet, route, deriver>>

exceptWallet == <<chainVars, retry, flow, route, deriver>>

exceptRoute == <<chainVars, retry, flow, wallet, deriver>>

exceptDeriver == <<chainVars, retry, flow, wallet, route>>

factoryVars == <<owner, uniqueId, userContracts, domainToUser, allContracts>>

(***************************************************************************)
(* Solidity mappings: every key has a value, the default until written.    *)
(***************************************************************************)
Get(m, k, default) == IF k \in DOMAIN m THEN m[k] ELSE default

Put(m, k, v) == [x \in (DOMAIN m) \cup {k} |-> IF x = k THEN v ELSE m[x]]

EmptyMap == [x \in {} |-> 0]

NoDevice ==
    [model |-> <<>>, subdomain |-> <<>>, deviceAddress |-> ZeroAddress,
     deviceNullifier |-> 0, exists |-> FALSE]

NoApp == [permission |-> 0, exists |-> FALSE]

(***************************************************************************)
(* The chain the contracts are deployed on, and the ENSIP-11 coin type.    *)
(***************************************************************************)
ChainId == 84532

\* A coin type is written as its bit 31 and its low 31 bits.
\* (0x80000000 | chainId) >> 0, for a chainId below 2^31
coinType == [bit31 |-> 1, low |-> ChainId]

\* the literal coin type 60 of the second setAddr
CoinTypeEth == [bit31 |-> 0, low |-> 60]

groupId == 1

(***************************************************************************)
(* The L2Registry collaborator (IL2Registry): the contracts only write to  *)
(* it and derive nodes from it.  A node is the path of its labels.         *)
(***************************************************************************)
baseNode == <<>>

makeNode(parent, label) == Append(parent, label)

setAddr(e, node, coin, addr) == [e EXCEPT !.addr = Put(@, <<node, coin>>, addr)]

setText(e, node, key, value) == [e EXCEPT !.text = Put(@, <<node, key>>, value)]

createSubnode(e, parent, label, subOwner) ==
    [e EXCEPT !.owner = Put(@, makeNode(parent, label), subOwner)]

EmptyEns == [addr |-> EmptyMap, text |-> EmptyMap, owner |-> EmptyMap]

_labelToNode(label) == makeNode(baseNode, label)

(***************************************************************************)
(* Hashing and packing.  keccak256 is modelled as injective on the packed  *)
(* bytes; abi.encodePacked concatenates (an address and a uint256 are one  *)
(* fixed-width item each).                                                 *)
(***************************************************************************)
keccak256(bytes) == [keccak |-> bytes]

hashToField(bytes) == [field |-> keccak256(bytes)]

\* the subdomain with its two labels in the other order
Subdomain_Swapped(model, ensDomain) == ensDomain \o <<".">> \o model

Subdomain(model, ensDomain) == model \o <<".">> \o ensDomain

\* the device hash taken without the device nullifier
DeviceHash_NoNullifier(model, ensDomain, deviceAddress, deviceNullifier) ==
    keccak256(Subdomain(model, ensDomain) \o <<deviceAddress>>)

DeviceHash(model, ensDomain, deviceAddress, deviceNullifier) ==
    keccak256(Subdomain(model, ensDomain) \o <<deviceAddress>> \o <<deviceNullifier>>)

(***************************************************************************)
(* Proof verification.  MockUniqueId.verifyProof returns for every input;  *)
(* any other IUniqueId implementation reverts on a proof it rejects.       *)
(* TRUE means the external call returned normally.                         *)
(***************************************************************************)
MockUniqueId_verifyProof(root, group, signalHash, nullifierHash, externalNullifierHash, proof) ==
    TRUE

uniqueId_verifyProof(uid, root, group, signalHash, nullifierHash, externalNullifierHash, proof) ==
    IF uid = "MockUniqueId"
    THEN MockUniqueId_verifyProof(root, group, signalHash, nullifierHash,
                                  externalNullifierHash, proof)
    ELSE proof = "valid"

(***************************************************************************)
(* UserDeviceManager.  An instance is a record of its storage; a handler   *)
(* yields the error it reverted with ("none" when it returned), the        *)
(* storage as written up to that point, and the events emitted.            *)
(***************************************************************************)
\* what a call leaves behind: its error, the storage it wrote, its log
Outcome(err, m, e, events) ==
    [err |-> err, st |-> [m |-> m, ens |-> e], events |-> events]

_registerMainDomain(m, e) ==
    LET node == _labelToNode(m.ensDomain)
        addr == m.userAddress
        e1 == setAddr(e, node, m.coinType, addr)
        e2 == setAddr(e1, node, CoinTypeEth, addr)
        e3 == setText(e2, node, "description", "User device manager contract")
    IN  createSubnode(e3, baseNode, m.ensDomain, m.userAddress)

\* the constructor leaving userNullifierHash unset
UserDeviceManager_NullifierUnset(_uniqueId, _userAddress, _ensDomain, _userNullifierHash) ==
    [uniqueId |-> _uniqueId,
     ensDomain |-> _ensDomain,
     userAddress |-> _userAddress,
     userNullifierHash |-> 0,
     coinType |-> coinType,
     chainId |-> ChainId,
     devices |-> EmptyMap,
     deviceApps |-> EmptyMap,
     deviceAppIds |-> EmptyMap,
     deviceHashes |-> <<>>,
     nullifierHashes |-> EmptyMap]

\* constructor: the instance storage after construction
UserDeviceManager(_uniqueId, _userAddress, _ensDomain, _userNullifierHash) ==
    [uniqueId |-> _uniqueId,
     ensDomain |-> _ensDomain,
     userAddress |-> _userAddress,
     userNullifierHash |-> _userNullifierHash,
     coinType |-> coinType,
     chainId |-> ChainId,
     devices |-> EmptyMap,
     deviceApps |-> EmptyMap,
     deviceAppIds |-> EmptyMap,
     deviceHashes |-> <<>>,
     nullifierHashes |-> EmptyMap]

\* _verifyProof calling the verifier before the replay check
_verifyProof_VerifierFirst(m, signal, root, nullifierHash, proof) ==
    IF ~uniqueId_verifyProof(m.uniqueId, root, groupId, hashToField(<<signal>>),
                             nullifierHash, 0, proof)
    THEN [err |-> "ProofInvalid", m |-> m]
    ELSE IF Get(m.nullifierHashes, nullifierHash, FALSE)
    THEN [err |-> "DuplicateNullifier", m |-> m]
    ELSE [err |-> "none",
          m |-> [m EXCEPT !.nullifierHashes = Put(@, nullifierHash, TRUE)]]

\* _verifyProof without the replay check
_verifyProof_NoReplayCheck(m, signal, root, nullifierHash, proof) ==
    IF ~uniqueId_verifyProof(m.uniqueId, root, groupId, hashToField(<<signal>>),
                             nullifierHash, 0, proof)
    THEN [err |-> "ProofInvalid", m |-> m]
    ELSE [err |-> "none",
          m |-> [m EXCEPT !.nullifierHashes = Put(@, nullifierHash, TRUE)]]

\* _verifyProof consuming the nullifier without calling the verifier
_verifyProof_IgnoresVerifier(m, signal, root, nullifierHash, proof) ==
    IF Get(m.nullifierHashes, nullifierHash, FALSE)
    THEN [err |-> "DuplicateNullifier", m |-> m]
    ELSE [err |-> "none",
          m |-> [m EXCEPT !.nullifierHashes = Put(@, nullifierHash, TRUE)]]

_verifyProof(m, signal, root, nullifierHash, proof) ==
    IF Get(m.nullifierHashes, nullifierHash, FALSE)
    THEN [err |-> "DuplicateNullifier", m |-> m]
    ELSE IF ~uniqueId_verifyProof(m.uniqueId, root, groupId, hashToField(<<signal>>),
                                  nullifierHash, 0, proof)
    THEN [err |-> "ProofInvalid", m |-> m]
    ELSE [err |-> "none",
          m |-> [m EXCEPT !.nullifierHashes = Put(@, nullifierHash, TRUE)]]

_registerSubdomain(m, e, model, deviceAddress) ==
    LET subdomain == Subdomain(model, m.ensDomain)
        node == _labelToNode(subdomain)
        addr == deviceAddress
        e1 == setAddr(e, node, m.coinType, addr)
        e2 == setAddr(e1, node, CoinTypeEth, addr)
        e3 == setText(e2, node, "device_model", model)
        e4 == setText(e3, node, "description", "Device subdomain")
    IN  createSubnode(e4, _labelToNode(m.ensDomain), model, deviceAddress)

\* addDevice looking the device up before it verifies the proof
addDevice_ExistsFirst(m, e, model, deviceAddress, deviceNullifier, root, nullifierHash, proof) ==
    LET v == _verifyProof(m, m.userAddress, root, nullifierHash, proof)
        m1 == v.m
        subdomain == Subdomain(model, m.ensDomain)
        deviceHash == DeviceHash(model, m.ensDomain, deviceAddress, deviceNullifier)
        m2 == [m1 EXCEPT
                 !.devices = Put(@, deviceHash,
                                 [model |-> model, subdomain |-> subdomain,
                                  deviceAddress |-> deviceAddress,
                                  deviceNullifier |-> deviceNullifier,
                                  exists |-> TRUE]),
                 !.deviceHashes = Append(@, deviceHash),
                 !.deviceAppIds = Put(@, deviceHash, <<>>)]
    IN  IF Get(m.devices, deviceHash, NoDevice).exists
        THEN Outcome("DeviceAlreadyExists", m, e, <<>>)
        ELSE IF v.err # "none"
        THEN Outcome(v.err, m1, e, <<>>)
        ELSE Outcome("none", m2, _registerSubdomain(m2, e, model, deviceAddress),
                     << [event |-> "DeviceAdded", deviceHash |-> deviceHash,
                         model |-> model, subdomain |-> subdomain,
                         deviceAddress |-> deviceAddress,
                         deviceNullifier |-> deviceNullifier] >>)

\* addDevice without the lookup of the device
addDevice_NoExistsCheck(m, e, model, deviceAddress, deviceNullifier, root, nullifierHash, proof) ==
    LET v == _verifyProof(m, m.userAddress, root, nullifierHash, proof)
        m1 == v.m
        subdomain == Subdomain(model, m.ensDomain)
        deviceHash == DeviceHash(model, m.ensDomain, deviceAddress, deviceNullifier)
        m2 == [m1 EXCEPT
                 !.devices = Put(@, deviceHash,
                                 [model |-> model, subdomain |-> subdomain,
                                  deviceAddress |-> deviceAddress,
                                  deviceNullifier |-> deviceNullifier,
                                  exists |-> TRUE]),
                 !.deviceHashes = Append(@, deviceHash),
                 !.deviceAppIds = Put(@, deviceHash, <<>>)]
    IN  IF v.err # "none"
        THEN Outcome(v.err, m1, e, <<>>)
        ELSE Outcome("none", m2, _registerSubdomain(m2, e, model, deviceAddress),
                     << [event |-> "DeviceAdded", deviceHash |-> deviceHash,
                         model |-> model, subdomain |-> subdomain,
                         deviceAddress |-> deviceAddress,
                         deviceNullifier |-> deviceNullifier] >>)

\* addDevice keyed without the device nullifier and writing over a stored device
addDevice_Upsert(m, e, model, deviceAddress, deviceNullifier, root, nullifierHash, proof) ==
    LET v == _verifyProof(m, m.userAddress, root, nullifierHash, proof)
        m1 == v.m
        subdomain == Subdomain(model, m.ensDomain)
        deviceHash == keccak256(subdomain \o <<deviceAddress>>)
        m2 == [m1 EXCEPT
                 !.devices = Put(@, deviceHash,
                                 [model |-> model, subdomain |-> subdomain,
                                  deviceAddress |-> deviceAddress,
                                  deviceNullifier |-> deviceNullifier,
                                  exists |-> TRUE]),
                 !.deviceHashes = Append(@, deviceHash),
                 !.deviceAppIds = Put(@, deviceHash, <<>>)]
    IN  IF v.err # "none"
        THEN Outcome(v.err, m1, e, <<>>)
        ELSE Outcome("none", m2, _registerSubdomain(m2, e, model, deviceAddress),
                     << [event |-> "DeviceAdded", deviceHash |-> deviceHash,
                         model |-> model, subdomain |-> subdomain,
                         deviceAddress |-> deviceAddress,
                         deviceNullifier |-> deviceNullifier] >>)

addDevice(m, e, model, deviceAddress, deviceNullifier, root, nullifierHash, proof) ==
    LET v == _verifyProof(m, m.userAddress, root, nullifierHash, proof)
        m1 == v.m
        subdomain == Subdomain(model, m.ensDomain)
        deviceHash == DeviceHash(model, m.ensDomain, deviceAddress, deviceNullifier)
        m2 == [m1 EXCEPT
                 !.devices = Put(@, deviceHash,
                                 [model |-> model, subdomain |-> subdomain,
                                  deviceAddress |-> deviceAddress,
                                  deviceNullifier |-> deviceNullifier,
                                  exists |-> TRUE]),
                 !.deviceHashes = Append(@, deviceHash),
                 !.deviceAppIds = Put(@, deviceHash, <<>>)]
    IN  IF v.err # "none"
        THEN Outcome(v.err, m1, e, <<>>)
        ELSE IF Get(m1.devices, deviceHash, NoDevice).exists
        THEN Outcome("DeviceAlreadyExists", m1, e, <<>>)
        ELSE Outcome("none", m2, _registerSubdomain(m2, e, model, deviceAddress),
                     << [event |-> "DeviceAdded", deviceHash |-> deviceHash,
                         model |-> model, subdomain |-> subdomain,
                         deviceAddress |-> deviceAddress,
                         deviceNullifier |-> deviceNullifier] >>)

\* addAppToDevice without the lookup of the device
addAppToDevice_NoDeviceCheck(m, e, sender, deviceHash, appId, permission) ==
    LET m1 == [m EXCEPT !.deviceApps =
                 Put(@, <<deviceHash, appId>>, [permission |-> permission, exists |-> TRUE])]
        m2 == IF ~Get(m1.deviceApps, <<deviceHash, appId>>, NoApp).exists
              THEN [m1 EXCEPT !.deviceAppIds =
                      Put(@, deviceHash, Append(Get(@, deviceHash, <<>>), appId))]
              ELSE m1
    IN  IF sender # m.userAddress
        THEN Outcome("Unauthorized", m, e, <<>>)
        ELSE IF permission > 3
        THEN Outcome("InvalidPermission", m, e, <<>>)
        ELSE Outcome("none", m2, e,
                     << [event |-> "AppAdded", deviceHash |-> deviceHash,
                         appId |-> appId, permission |-> permission] >>)

\* addAppToDevice keeping the stored level of a pair that has an entry
addAppToDevice_CreateOnly(m, e, sender, deviceHash, appId, permission) ==
    LET m1 == IF Get(m.deviceApps, <<deviceHash, appId>>, NoApp).exists
              THEN m
              ELSE [m EXCEPT !.deviceApps =
                      Put(@, <<deviceHash, appId>>,
                          [permission |-> permission, exists |-> TRUE])]
    IN  IF sender # m.userAddress
        THEN Outcome("Unauthorized", m, e, <<>>)
        ELSE IF permission > 3
        THEN Outcome("InvalidPermission", m, e, <<>>)
        ELSE IF ~Get(m.devices, deviceHash, NoDevice).exists
        THEN Outcome("DeviceNotFound", m, e, <<>>)
        ELSE Outcome("none", m1, e,
                     << [event |-> "AppAdded", deviceHash |-> deviceHash,
                         appId |-> appId, permission |-> permission] >>)

\* addAppToDevice accepting level 4
addAppToDevice_LevelFour(m, e, sender, deviceHash, appId, permission) ==
    LET m1 == [m EXCEPT !.deviceApps =
                 Put(@, <<deviceHash, appId>>, [permission |-> permission, exists |-> TRUE])]
    IN  IF sender # m.userAddress
        THEN Outcome("Unauthorized", m, e, <<>>)
        ELSE IF permission > 4
        THEN Outcome("InvalidPermission", m, e, <<>>)
        ELSE IF ~Get(m.devices, deviceHash, NoDevice).exists
        THEN Outcome("DeviceNotFound", m, e, <<>>)
        ELSE Outcome("none", m1, e,
                     << [event |-> "AppAdded", deviceHash |-> deviceHash,
                         appId |-> appId, permission |-> permission] >>)

\* addAppToDevice appending the app ID on every grant
addAppToDevice_AlwaysAppends(m, e, sender, deviceHash, appId, permission) ==
    LET m1 == [m EXCEPT !.deviceApps =
                 Put(@, <<deviceHash, appId>>, [permission |-> permission, exists |-> TRUE])]
        m2 == [m1 EXCEPT !.deviceAppIds =
                 Put(@, deviceHash, Append(Get(@, deviceHash, <<>>), appId))]
    IN  IF sender # m.userAddress
        THEN Outcome("Unauthorized", m, e, <<>>)
        ELSE IF permission > 3
        THEN Outcome("InvalidPermission", m, e, <<>>)
        ELSE IF ~Get(m.devices, deviceHash, NoDevice).exists
        THEN Outcome("DeviceNotFound", m, e, <<>>)
        ELSE Outcome("none", m2, e,
                     << [event |-> "AppAdded", deviceHash |-> deviceHash,
                         appId |-> appId, permission |-> permission] >>)

addAppToDevice(m, e, sender, deviceHash, appId, permission) ==
    LET m1 == [m EXCEPT !.deviceApps =
                 Put(@, <<deviceHash, appId>>, [permission |-> permission, exists |-> TRUE])]
        \* the entry is read after it has been written
        m2 == IF ~Get(m1.deviceApps, <<deviceHash, appId>>, NoApp).exists
              THEN [m1 EXCEPT !.deviceAppIds =
                      Put(@, deviceHash, Append(Get(@, deviceHash, <<>>), appId))]
              ELSE m1
    IN  IF sender # m.userAddress
        THEN Outcome("Unauthorized", m, e, <<>>)
        ELSE IF permission > 3
        THEN Outcome("InvalidPermission", m, e, <<>>)
        ELSE IF ~Get(m.devices, deviceHash, NoDevice).exists
        THEN Outcome("DeviceNotFound", m, e, <<>>)
        ELSE Outcome("none", m2, e,
                     << [event |-> "AppAdded", deviceHash |-> deviceHash,
                         appId |-> appId, permission |-> permission] >>)

\* updateAppPermission writing the level of every app of the device
updateAppPermission_WholeDevice(m, e, sender, deviceHash, appId, newPermission) ==
    LET oldPermission == Get(m.deviceApps, <<deviceHash, appId>>, NoApp).permission
        m1 == [m EXCEPT !.deviceApps =
                 [k \in DOMAIN @ |->
                    IF k[1] = deviceHash THEN [@[k] EXCEPT !.permission = newPermission]
                    ELSE @[k]]]
    IN  IF sender # m.userAddress
        THEN Outcome("Unauthorized", m, e, <<>>)
        ELSE IF newPermission > 3
        THEN Outcome("InvalidPermission", m, e, <<>>)
        ELSE IF ~Get(m.devices, deviceHash, NoDevice).exists
        THEN Outcome("DeviceNotFound", m, e, <<>>)
        ELSE IF ~Get(m.deviceApps, <<deviceHash, appId>>, NoApp).exists
        THEN Outcome("AppNotFound", m, e, <<>>)
        ELSE Outcome("none", m1, e,
                     << [event |-> "AppPermissionUpdated", deviceHash |-> deviceHash,
                         appId |-> appId, oldPermission |-> oldPermission,
                         newPermission |-> newPermission] >>)

\* updateAppPermission reading the old level after it has written the new one
updateAppPermission_OldReadAfterWrite(m, e, sender, deviceHash, appId, newPermission) ==
    LET m1 == [m EXCEPT !.deviceApps =
                 Put(@, <<deviceHash, appId>>,
                     [Get(@, <<deviceHash, appId>>, NoApp) EXCEPT !.permission = newPermission])]
        oldPermission == Get(m1.deviceApps, <<deviceHash, appId>>, NoApp).permission
    IN  IF sender # m.userAddress
        THEN Outcome("Unauthorized", m, e, <<>>)
        ELSE IF newPermission > 3
        THEN Outcome("InvalidPermission", m, e, <<>>)
        ELSE IF ~Get(m.devices, deviceHash, NoDevice).exists
        THEN Outcome("DeviceNotFound", m, e, <<>>)
        ELSE IF ~Get(m.deviceApps, <<deviceHash, appId>>, NoApp).exists
        THEN Outcome("AppNotFound", m, e, <<>>)
        ELSE Outcome("none", m1, e,
                     << [event |-> "AppPermissionUpdated", deviceHash |-> deviceHash,
                         appId |-> appId, oldPermission |-> oldPermission,
                         newPermission |-> newPermission] >>)

\* updateAppPermission without the caller check
updateAppPermission_NoCallerCheck(m, e, sender, deviceHash, appId, newPermission) ==
    LET oldPermission == Get(m.deviceApps, <<deviceHash, appId>>, NoApp).permission
        m1 == [m EXCEPT !.deviceApps =
                 Put(@, <<deviceHash, appId>>,
                     [Get(@, <<deviceHash, appId>>, NoApp) EXCEPT !.permission = newPermission])]
    IN  IF newPermission > 3
        THEN Outcome("InvalidPermission", m, e, <<>>)
        ELSE IF ~Get(m.devices, deviceHash, NoDevice).exists
        THEN Outcome("DeviceNotFound", m, e, <<>>)
        ELSE IF ~Get(m.deviceApps, <<deviceHash, appId>>, NoApp).exists
        THEN Outcome("AppNotFound", m, e, <<>>)
        ELSE Outcome("none", m1, e,
                     << [event |-> "AppPermissionUpdated", deviceHash |-> deviceHash,
                         appId |-> appId, oldPermission |-> oldPermission,
                         newPermission |-> newPermission] >>)

\* updateAppPermission without the app lookup
updateAppPermission_NoAppCheck(m, e, sender, deviceHash, appId, newPermission) ==
    LET oldPermission == Get(m.deviceApps, <<deviceHash, appId>>, NoApp).permission
        m1 == [m EXCEPT !.deviceApps =
                 Put(@, <<deviceHash, appId>>,
                     [Get(@, <<deviceHash, appId>>, NoApp) EXCEPT !.permission = newPermission])]
    IN  IF sender # m.userAddress
        THEN Outcome("Unauthorized", m, e, <<>>)
        ELSE IF newPermission > 3
        THEN Outcome("InvalidPermission", m, e, <<>>)
        ELSE IF ~Get(m.devices, deviceHash, NoDevice).exists
        THEN Outcome("DeviceNotFound", m, e, <<>>)
        ELSE Outcome("none", m1, e,
                     << [event |-> "AppPermissionUpdated", deviceHash |-> deviceHash,
                         appId |-> appId, oldPermission |-> oldPermission,
                         newPermission |-> newPermission] >>)

updateAppPermission(m, e, sender, deviceHash, appId, newPermission) ==
    LET oldPermission == Get(m.deviceApps, <<deviceHash, appId>>, NoApp).permission
        m1 == [m EXCEPT !.deviceApps =
                 Put(@, <<deviceHash, appId>>,
                     [Get(@, <<deviceHash, appId>>, NoApp) EXCEPT !.permission = newPermission])]
    IN  IF sender # m.userAddress
        THEN Outcome("Unauthorized", m, e, <<>>)
        ELSE IF newPermission > 3
        THEN Outcome("InvalidPermission", m, e, <<>>)
        ELSE IF ~Get(m.devices, deviceHash, NoDevice).exists
        THEN Outcome("DeviceNotFound", m, e, <<>>)
        ELSE IF ~Get(m.deviceApps, <<deviceHash, appId>>, NoApp).exists
        THEN Outcome("AppNotFound", m, e, <<>>)
        ELSE Outcome("none", m1, e,
                     << [event |-> "AppPermissionUpdated", deviceHash |-> deviceHash,
                         appId |-> appId, oldPermission |-> oldPermission,
                         newPermission |-> newPermission] >>)

\* what a read call gives its caller: the error it reverted with, or its value
Reverted(err) == [err |-> err]

Returned(value) == [err |-> "none", ret |-> value]

\* read accessors of an instance
getDevice(m, deviceHash) ==
    IF ~Get(m.devices, deviceHash, NoDevice).exists
    THEN Reverted("DeviceNotFound")
    ELSE Returned(Get(m.devices, deviceHash, NoDevice))

getAppPermission(m, deviceHash, appId) ==
    IF ~Get(m.devices, deviceHash, NoDevice).exists
    THEN Reverted("DeviceNotFound")
    ELSE Returned(Get(m.deviceApps, <<deviceHash, appId>>, NoApp))

\* getDeviceAppIds taking an empty list for an absent device
getDeviceAppIds_EmptyIsNotFound(m, deviceHash) ==
    IF ~Get(m.devices, deviceHash, NoDevice).exists
    THEN Reverted("DeviceNotFound")
    ELSE IF Get(m.deviceAppIds, deviceHash, <<>>) = <<>>
    THEN Reverted("DeviceNotFound")
    ELSE Returned(Get(m.deviceAppIds, deviceHash, <<>>))

getDeviceAppIds(m, deviceHash) ==
    IF ~Get(m.devices, deviceHash, NoDevice).exists
    THEN Reverted("DeviceNotFound")
    ELSE Returned(Get(m.deviceAppIds, deviceHash, <<>>))

getDeviceAppCount(m, deviceHash) ==
    IF ~Get(m.devices, deviceHash, NoDevice).exists
    THEN Reverted("DeviceNotFound")
    ELSE Returned(Len(Get(m.deviceAppIds, deviceHash, <<>>)))

getDeviceCount(m) == Len(m.deviceHashes)

getAllDeviceHashes(m) == m.deviceHashes

(***************************************************************************)
(* UserDeviceManagerFactory.  Its storage is the factory variables; the    *)
(* instances it creates and the registry records are written in the same   *)
(* transaction.                                                            *)
(***************************************************************************)
FactoryStorage ==
    [userContracts |-> userContracts, domainToUser |-> domainToUser,
     allContracts |-> allContracts, managers |-> managers, ens |-> ens]

\* deployUserDeviceManager looking the user up before it checks the caller
deployUserDeviceManager_UserCheckFirst(sender, userAddress, ensDomain, userNullifierHash) ==
    LET newContract == UserDeviceManager(uniqueId, userAddress, ensDomain, userNullifierHash)
        contractAddress == ContractAddresses[Len(allContracts) + 1]
    IN  IF Get(userContracts, userAddress, ZeroAddress) # ZeroAddress
        THEN [err |-> "UserAlreadyHasContract", st |-> FactoryStorage, events |-> <<>>,
              ret |-> ZeroAddress]
        ELSE IF sender # owner
        THEN [err |-> "Unauthorized", st |-> FactoryStorage, events |-> <<>>,
              ret |-> ZeroAddress]
        ELSE IF Get(domainToUser, ensDomain, ZeroAddress) # ZeroAddress
        THEN [err |-> "DomainAlreadyRegistered", st |-> FactoryStorage, events |-> <<>>,
              ret |-> ZeroAddress]
        ELSE [err |-> "none",
              st |-> [userContracts |-> Put(userContracts, userAddress, contractAddress),
                      domainToUser |-> Put(domainToUser, ensDomain, userAddress),
                      allContracts |-> Append(allContracts, contractAddress),
                      managers |-> Put(managers, contractAddress, newContract),
                      ens |-> _registerMainDomain(newContract, ens)],
              events |-> << [event |-> "UserDeviceManagerDeployed",
                             userAddress |-> userAddress, ensDomain |-> ensDomain,
                             contractAddress |-> contractAddress,
                             userNullifierHash |-> userNullifierHash] >>,
              ret |-> contractAddress]

\* deployUserDeviceManager without the append to allContracts
deployUserDeviceManager_NoPush(sender, userAddress, ensDomain, userNullifierHash) ==
    LET newContract == UserDeviceManager(uniqueId, userAddress, ensDomain, userNullifierHash)
        contractAddress == ContractAddresses[Len(allContracts) + 1]
    IN  IF sender # owner
        THEN [err |-> "Unauthorized", st |-> FactoryStorage, events |-> <<>>,
              ret |-> ZeroAddress]
        ELSE IF Get(userContracts, userAddress, ZeroAddress) # ZeroAddress
        THEN [err |-> "UserAlreadyHasContract", st |-> FactoryStorage, events |-> <<>>,
              ret |-> ZeroAddress]
        ELSE IF Get(domainToUser, ensDomain, ZeroAddress) # ZeroAddress
        THEN [err |-> "DomainAlreadyRegistered", st |-> FactoryStorage, events |-> <<>>,
              ret |-> ZeroAddress]
        ELSE [err |-> "none",
              st |-> [userContracts |-> Put(userContracts, userAddress, contractAddress),
                      domainToUser |-> Put(domainToUser, ensDomain, userAddress),
                      allContracts |-> allContracts,
                      managers |-> Put(managers, contractAddress, newContract),
                      ens |-> _registerMainDomain(newContract, ens)],
              events |-> << [event |-> "UserDeviceManagerDeployed",
                             userAddress |-> userAddress, ensDomain |-> ensDomain,
                             contractAddress |-> contractAddress,
                             userNullifierHash |-> userNullifierHash] >>,
              ret |-> contractAddress]

deployUserDeviceManager(sender, userAddress, ensDomain, userNullifierHash) ==
    LET newContract == UserDeviceManager(uniqueId, userAddress, ensDomain, userNullifierHash)
        contractAddress == ContractAddresses[Len(allContracts) + 1]
    IN  IF sender # owner
        THEN [err |-> "Unauthorized", st |-> FactoryStorage, events |-> <<>>,
              ret |-> ZeroAddress]
        ELSE IF Get(userContracts, userAddress, ZeroAddress) # ZeroAddress
        THEN [err |-> "UserAlreadyHasContract", st |-> FactoryStorage, events |-> <<>>,
              ret |-> ZeroAddress]
        ELSE IF Get(domainToUser, ensDomain, ZeroAddress) # ZeroAddress
        THEN [err |-> "DomainAlreadyRegistered", st |-> FactoryStorage, events |-> <<>>,
              ret |-> ZeroAddress]
        ELSE [err |-> "none",
              st |-> [userContracts |-> Put(userContracts, userAddress, contractAddress),
                      domainToUser |-> Put(domainToUser, ensDomain, userAddress),
                      allContracts |-> Append(allContracts, contractAddress),
                      managers |-> Put(managers, contractAddress, newContract),
                      ens |-> _registerMainDomain(newContract, ens)],
              events |-> << [event |-> "UserDeviceManagerDeployed",
                             userAddress |-> userAddress, ensDomain |-> ensDomain,
                             contractAddress |-> contractAddress,
                             userNullifierHash |-> userNullifierHash] >>,
              ret |-> contractAddress]

\* read accessors of the factory
getUserContract(userAddress) ==
    LET contractAddress == Get(userContracts, userAddress, ZeroAddress)
    IN  IF contractAddress = ZeroAddress
        THEN Reverted("ContractNotFound")
        ELSE Returned(contractAddress)

getUserByDomain(ensDomain) ==
    LET userAddress == Get(domainToUser, ensDomain, ZeroAddress)
    IN  IF userAddress = ZeroAddress
        THEN Reverted("ContractNotFound")
        ELSE Returned(userAddress)

getContractByDomain(ensDomain) ==
    LET userAddress == Get(domainToUser, ensDomain, ZeroAddress)
    IN  IF userAddress = ZeroAddress
        THEN Reverted("ContractNotFound")
        ELSE Returned(Get(userContracts, userAddress, ZeroAddress))

hasUserContract(userAddress) == Get(userContracts, userAddress, ZeroAddress) # ZeroAddress

isDomainRegistered(ensDomain) == Get(domainToUser, ensDomain, ZeroAddress) # ZeroAddress

getTotalContracts == Len(allContracts)

getAllContracts == allContracts

(***************************************************************************)
(* Transactions.  A revert discards every write and every log of the       *)
(* transaction; only the error reaches the caller.                         *)
(***************************************************************************)
\* a revert that keeps what the transaction wrote
Revert_KeepsWrites(pre, out) == out

Revert(pre, out) == [out EXCEPT !.st = pre, !.events = <<>>]

\* a settlement that commits what a reverted call wrote
Settle_CommitsFailed(pre, out) == out

Settle(pre, out) == IF out.err = "none" THEN out ELSE Revert(pre, out)

Deployed == DOMAIN managers

TotalDevices(ms) ==
    LET RECURSIVE Sum(_)
        Sum(S) == IF S = {} THEN 0
                  ELSE LET c == CHOOSE x \in S : TRUE
                       IN  Len(ms[c].deviceHashes) + Sum(S \ {c})
    IN  Sum(DOMAIN ms)

TotalApps(ms) ==
    LET RECURSIVE Sum(_)
        Sum(S) == IF S = {} THEN 0
                  ELSE LET c == CHOOSE x \in S : TRUE
                       IN  Cardinality(DOMAIN ms[c].deviceApps) + Sum(S \ {c})
    IN  Sum(DOMAIN ms)

\* the device hashes that callers of the instance at c make of the triples
HashInputs(c, inputs) ==
    { DeviceHash(t[1], managers[c].ensDomain, t[2], t[3]) : t \in inputs }

\* the value of a variable of a program that is not running
Unused == "unused"

Init ==
    /\ owner = FactoryOwner
    /\ uniqueId \in Verifiers
    /\ userContracts = EmptyMap
    /\ domainToUser = EmptyMap
    /\ allContracts = <<>>
    /\ managers = EmptyMap
    /\ ens = EmptyEns
    /\ lastCall = [op |-> "constructor", err |-> "none", existed |-> FALSE]
    /\ retry = Unused
    /\ flow = Unused
    /\ wallet = Unused
    /\ route = Unused
    /\ deriver = Unused

\* the settled outcome of each entry point, called in the current state
DeployResult(sender, userAddress, ensDomain, userNullifierHash) ==
    Settle(FactoryStorage,
           deployUserDeviceManager(sender, userAddress, ensDomain, userNullifierHash))

AddDeviceResult(c, model, deviceAddress, deviceNullifier, root, nullifierHash, proof) ==
    Settle([m |-> managers[c], ens |-> ens],
           addDevice(managers[c], ens, model, deviceAddress, deviceNullifier, root,
                     nullifierHash, proof))

AddAppResult(c, sender, deviceHash, appId, permission) ==
    Settle([m |-> managers[c], ens |-> ens],
           addAppToDevice(managers[c], ens, sender, deviceHash, appId, permission))

UpdateAppResult(c, sender, deviceHash, appId, newPermission) ==
    Settle([m |-> managers[c], ens |-> ens],
           updateAppPermission(managers[c], ens, sender, deviceHash, appId, newPermission))

DeployUserDeviceManager(sender, userAddress, ensDomain, userNullifierHash) ==
    LET out == DeployResult(sender, userAddress, ensDomain, userNullifierHash)
    IN  /\ userContracts' = out.st.userContracts
        /\ domainToUser' = out.st.domainToUser
        /\ allContracts' = out.st.allContracts
        /\ managers' = out.st.managers
        /\ ens' = out.st.ens
        /\ lastCall' = [op |-> "deployUserDeviceManager", err |-> out.err,
                        existed |-> Get(userContracts, userAddress, ZeroAddress) # ZeroAddress]
        /\ UNCHANGED <<owner, uniqueId>>
        /\ UNCHANGED offchainVars

\* a call whose consumed nullifiers are kept in one set for all instances
ManagerCall_SharedNullifiers(c, out, op, existed) ==
    /\ managers' = [c2 \in DOMAIN managers |->
                      IF c2 = c THEN out.st.m
                      ELSE [managers[c2] EXCEPT
                              !.nullifierHashes = out.st.m.nullifierHashes]]
    /\ ens' = out.st.ens
    /\ lastCall' = [op |-> op, err |-> out.err, existed |-> existed]
    /\ UNCHANGED factoryVars
    /\ UNCHANGED offchainVars

\* a call to the instance at address c: its storage and the registry are settled
ManagerCall(c, out, op, existed) ==
    /\ managers' = [managers EXCEPT ![c] = out.st.m]
    /\ ens' = out.st.ens
    /\ lastCall' = [op |-> op, err |-> out.err, existed |-> existed]
    /\ UNCHANGED factoryVars
    /\ UNCHANGED offchainVars

AddDevice(c, sender, model, deviceAddress, deviceNullifier, root, nullifierHash, proof) ==
    LET out == AddDeviceResult(c, model, deviceAddress, deviceNullifier, root,
                               nullifierHash, proof)
    IN  ManagerCall(c, out, "addDevice",
                    Get(managers[c].devices,
                        DeviceHash(model, managers[c].ensDomain, deviceAddress,
                                   deviceNullifier), NoDevice).exists)

AddAppToDevice(c, sender, deviceHash, appId, permission) ==
    LET out == AddAppResult(c, sender, deviceHash, appId, permission)
    IN  ManagerCall(c, out, "addAppToDevice",
                    Get(managers[c].deviceApps, <<deviceHash, appId>>, NoApp).exists)

UpdateAppPermission(c, sender, deviceHash, appId, newPermission) ==
    LET out == UpdateAppResult(c, sender, deviceHash, appId, newPermission)
    IN  ManagerCall(c, out, "updateAppPermission",
                    Get(managers[c].deviceApps, <<deviceHash, appId>>, NoApp).exists)

\* the exploration stops at the given numbers of instances, devices and app entries
Bounded(maxContracts, maxDevices, maxApps) ==
    /\ Len(allContracts) <= maxContracts
    /\ TotalDevices(managers) <= maxDevices
    /\ TotalApps(managers) <= maxApps

SysBounded == Bounded(MaxContracts, SysMaxDevices, SysMaxApps)

RegBounded == Bounded(RegMaxContracts, MaxDevices, MaxApps)

\* the whole system: the factory over all users, instances over small alphabets
Next ==
    \/ \E sender \in Callers, userAddress \in Users, ensDomain \in EnsDomains,
          userNullifierHash \in UserNullifiers :
          /\ DeployUserDeviceManager(sender, userAddress, ensDomain, userNullifierHash)
          /\ SysBounded'
    \/ \E c \in Deployed, sender \in Callers, t \in SysDeviceInputs, root \in Roots,
          nullifierHash \in SysProofNullifiers, proof \in SysProofs :
          /\ AddDevice(c, sender, t[1], t[2], t[3], root, nullifierHash, proof)
          /\ SysBounded'
    \/ \E c \in Deployed, sender \in Callers, appId \in SysAppIds,
          permission \in SysPermissions :
          \E deviceHash \in HashInputs(c, SysDeviceInputs) :
             /\ AddAppToDevice(c, sender, deviceHash, appId, permission)
             /\ SysBounded'
    \/ \E c \in Deployed, sender \in Callers, appId \in SysAppIds,
          permission \in SysPermissions :
          \E deviceHash \in HashInputs(c, SysDeviceInputs) :
             /\ UpdateAppPermission(c, sender, deviceHash, appId, permission)
             /\ SysBounded'

Spec == Init /\ [][Next]_vars

\* one instance, deployed for u1 and domain "a", over the full alphabets
NextRegistry ==
    \/ \E sender \in RegCallers, userAddress \in RegUsers, ensDomain \in RegDomains,
          userNullifierHash \in UserNullifiers :
          /\ DeployUserDeviceManager(sender, userAddress, ensDomain, userNullifierHash)
          /\ RegBounded'
    \/ \E c \in Deployed, sender \in RegCallers, t \in DeviceInputs, root \in Roots,
          nullifierHash \in ProofNullifiers, proof \in Proofs :
          /\ AddDevice(c, sender, t[1], t[2], t[3], root, nullifierHash, proof)
          /\ RegBounded'
    \/ \E c \in Deployed, sender \in RegCallers, appId \in AppIds,
          permission \in Permissions :
          \E deviceHash \in HashInputs(c, AppDeviceInputs) :
             /\ AddAppToDevice(c, sender, deviceHash, appId, permission)
             /\ RegBounded'
    \/ \E c \in Deployed, sender \in RegCallers, appId \in AppIds,
          permission \in Permissions :
          \E deviceHash \in HashInputs(c, AppDeviceInputs) :
             /\ UpdateAppPermission(c, sender, deviceHash, appId, permission)
             /\ RegBounded'

SpecRegistry == Init /\ [][NextRegistry]_vars

(***************************************************************************)
(* Properties.  Storage(c) is what a call to the instance at c can write;  *)
(* a property about a call quantifies over the inputs of the call in every *)
(* reachable state and reads the settled outcome of the call.              *)
(***************************************************************************)
Storage(c) == [m |-> managers[c], ens |-> ens]

Consumed(m) == { n \in DOMAIN m.nullifierHashes : m.nullifierHashes[n] }

Exists(m, deviceHash) == Get(m.devices, deviceHash, NoDevice).exists

HasApp(m, deviceHash, appId) == Get(m.deviceApps, <<deviceHash, appId>>, NoApp).exists

Accepts(m, root, nullifierHash, proof) ==
    uniqueId_verifyProof(m.uniqueId, root, groupId, hashToField(<<m.userAddress>>),
                         nullifierHash, 0, proof)

Elems(seq) == { seq[i] : i \in 1..Len(seq) }

AllHashes(c) == HashInputs(c, DeviceInputs)

\* C1: in one instance a proof nullifier is accepted by at most one successful
\* addDevice: an addDevice carrying a consumed nullifier fails with
\* DuplicateNullifier and leaves the device count unchanged, so the devices added
\* are as many as the nullifiers consumed (no two share one).
C1_NullifierOnce ==
    \A c \in Deployed :
       /\ Cardinality(Consumed(managers[c])) = getDeviceCount(managers[c])
       /\ \A t \in DeviceInputs, root \in Roots, n \in ProofNullifiers, proof \in Proofs :
             n \in Consumed(managers[c]) =>
                LET out == AddDeviceResult(c, t[1], t[2], t[3], root, n, proof)
                IN  /\ out.err = "DuplicateNullifier"
                    /\ getDeviceCount(out.st.m) = getDeviceCount(managers[c])

\* C1 witness: an addDevice has just been rejected as a replay, and an instance
\* holds two devices added under two nullifiers.
C1_Witness ==
    /\ lastCall.op = "addDevice"
    /\ lastCall.err = "DuplicateNullifier"
    /\ \E c \in Deployed : getDeviceCount(managers[c]) = 2

\* C2 (as claimed): no two instances were created for one user or for one ENS
\* domain; a deployment by the factory owner for a user that has an instance
\* fails with UserAlreadyHasContract, and one for a domain that a successful
\* deployment claimed fails with DomainAlreadyRegistered.
C2_OncePerUserAndDomain ==
    /\ \A c1, c2 \in Deployed :
          (\/ managers[c1].userAddress = managers[c2].userAddress
           \/ managers[c1].ensDomain = managers[c2].ensDomain) => c1 = c2
    /\ \A u \in Users, d \in EnsDomains, n \in UserNullifiers :
          LET out == DeployResult(owner, u, d, n)
              userHas == \E c \in Deployed : managers[c].userAddress = u
              domainHas == \E c \in Deployed : managers[c].ensDomain = d
          IN  /\ userHas => out.err = "UserAlreadyHasContract"
              /\ (~userHas /\ domainHas) => out.err = "DomainAlreadyRegistered"

\* C3 (as claimed): re-submitting the inputs of a successful addDevice fails with
\* DeviceAlreadyExists and leaves the device count and the stored device unchanged.
C3_ResubmitAlreadyExists ==
    [][ (lastCall'.op = "addDevice" /\ lastCall'.err = "none") =>
          \A c \in Deployed, sender \in RegCallers, t \in DeviceInputs, root \in Roots,
             n \in ProofNullifiers, proof \in Proofs :
             AddDevice(c, sender, t[1], t[2], t[3], root, n, proof) =>
                /\ AddDeviceResult(c, t[1], t[2], t[3], root, n, proof)'.err
                      = "DeviceAlreadyExists"
                /\ AddDeviceResult(c, t[1], t[2], t[3], root, n, proof)'.st = Storage(c)'
      ]_vars

\* C3 (amended), on the step: right after a successful addDevice, the same inputs
\* fail with DuplicateNullifier and would leave the storage as it is.
C3_ResubmitStep ==
    (lastCall'.op = "addDevice" /\ lastCall'.err = "none") =>
       \A c \in Deployed, sender \in RegCallers, t \in DeviceInputs, root \in Roots,
          n \in ProofNullifiers, proof \in Proofs :
          AddDevice(c, sender, t[1], t[2], t[3], root, n, proof) =>
             /\ AddDeviceResult(c, t[1], t[2], t[3], root, n, proof)'.err
                   = "DuplicateNullifier"
             /\ AddDeviceResult(c, t[1], t[2], t[3], root, n, proof)'.st = Storage(c)'

\* C3 (amended), in every state: an addDevice for a device that exists changes
\* nothing; it fails with DuplicateNullifier when its nullifier is consumed and
\* with DeviceAlreadyExists when its nullifier is fresh and its proof accepted.
C3_ResubmitInv ==
    \A c \in Deployed, t \in DeviceInputs, root \in Roots, n \in ProofNullifiers,
       proof \in Proofs :
       Exists(managers[c], DeviceHash(t[1], managers[c].ensDomain, t[2], t[3])) =>
          LET out == AddDeviceResult(c, t[1], t[2], t[3], root, n, proof)
          IN  /\ out.st = Storage(c)
              /\ n \in Consumed(managers[c]) => out.err = "DuplicateNullifier"
              /\ (n \notin Consumed(managers[c]) /\ Accepts(managers[c], root, n, proof))
                    => out.err = "DeviceAlreadyExists"

\* C3 (amended): re-submitting the inputs of a successful addDevice fails with
\* DuplicateNullifier and changes neither the device count nor the stored device;
\* DeviceAlreadyExists is the error of the same device re-submitted under a fresh
\* proof nullifier with an accepted proof.
C3_Resubmit == []C3_ResubmitInv /\ [][C3_ResubmitStep]_vars

\* C3 witness: an addDevice for an existing device was rejected as a replay.
C3_Witness ==
    /\ lastCall.op = "addDevice"
    /\ lastCall.err = "DuplicateNullifier"
    /\ lastCall.existed

\* C4, in every state: an addDevice that fails leaves the storage as it was and
\* logs nothing; one that fails with DeviceAlreadyExists leaves its nullifier
\* unconsumed, and that nullifier then adds any device not yet present.
C4_FailedInv ==
    \A c \in Deployed, t \in DeviceInputs, root \in Roots, n \in ProofNullifiers,
       proof \in Proofs :
       LET out == AddDeviceResult(c, t[1], t[2], t[3], root, n, proof)
       IN  /\ out.err # "none" => (out.st = Storage(c) /\ out.events = <<>>)
           /\ out.err = "DeviceAlreadyExists" =>
                 /\ n \notin Consumed(out.st.m)
                 /\ \A t2 \in DeviceInputs :
                       ~Exists(out.st.m, DeviceHash(t2[1], out.st.m.ensDomain, t2[2], t2[3]))
                          => Settle(out.st, addDevice(out.st.m, out.st.ens, t2[1], t2[2],
                                                      t2[3], root, n, proof)).err = "none"

\* C4, on the step: a failed addDevice transaction changes no variable but the
\* record of the call.
C4_FailedStep ==
    (lastCall'.op = "addDevice" /\ lastCall'.err # "none") =>
       (managers' = managers /\ ens' = ens /\ UNCHANGED factoryVars)

\* C4: addDevice is all-or-nothing; a call rejected with DeviceAlreadyExists does
\* not consume its proof nullifier.
C4_AllOrNothing == []C4_FailedInv /\ [][C4_FailedStep]_vars

\* C4 witness: an addDevice was rejected with DeviceAlreadyExists and a nullifier
\* is still unconsumed in an instance that holds a device.
C4_Witness ==
    /\ lastCall.op = "addDevice"
    /\ lastCall.err = "DeviceAlreadyExists"
    /\ \E c \in Deployed :
          /\ getDeviceCount(managers[c]) = 1
          /\ Cardinality(Consumed(managers[c])) = 1

StoredLevelsValid ==
    \A c \in Deployed : \A k \in DOMAIN managers[c].deviceApps :
       managers[c].deviceApps[k].permission \in 0..3

\* C5 (as claimed): stored levels are in 0..3, and addAppToDevice and
\* updateAppPermission with a level of 4 or more fail with InvalidPermission and
\* change nothing, whoever calls.
C5_InvalidPermissionAlways ==
    /\ StoredLevelsValid
    /\ \A c \in Deployed : \A sender \in RegCallers, h \in AllHashes(c), a \in AppIds,
          p \in Permissions :
          p >= 4 =>
             /\ AddAppResult(c, sender, h, a, p).err = "InvalidPermission"
             /\ AddAppResult(c, sender, h, a, p).st = Storage(c)
             /\ UpdateAppResult(c, sender, h, a, p).err = "InvalidPermission"
             /\ UpdateAppResult(c, sender, h, a, p).st = Storage(c)

\* C5 (amended): stored levels are in 0..3; addAppToDevice and updateAppPermission
\* with a level of 4 or more change nothing, and fail with InvalidPermission when
\* the owner calls and with Unauthorized when anyone else does.
C5_LevelsValid ==
    /\ StoredLevelsValid
    /\ \A c \in Deployed : \A sender \in RegCallers, h \in AllHashes(c), a \in AppIds,
          p \in Permissions :
          p >= 4 =>
             LET expected == IF sender = managers[c].userAddress
                             THEN "InvalidPermission" ELSE "Unauthorized"
             IN  /\ AddAppResult(c, sender, h, a, p).err = expected
                 /\ AddAppResult(c, sender, h, a, p).st = Storage(c)
                 /\ UpdateAppResult(c, sender, h, a, p).err = expected
                 /\ UpdateAppResult(c, sender, h, a, p).st = Storage(c)

\* C5 witness: a level of 4 or more was rejected on a device that has an app.
C5_Witness ==
    /\ lastCall.op \in {"addAppToDevice", "updateAppPermission"}
    /\ lastCall.err = "InvalidPermission"
    /\ \E c \in Deployed : DOMAIN managers[c].deviceApps # {}

\* C6 (as claimed): the owner's addAppToDevice for a device and an app ID with no
\* entry succeeds, creates the entry and appends the app ID to the device's list,
\* so the app count grows by one and the list contains the app ID.
C6_FirstGrantAppends ==
    \A c \in Deployed : \A h \in AllHashes(c), a \in AppIds, p \in Permissions :
       (p <= 3 /\ Exists(managers[c], h) /\ ~HasApp(managers[c], h, a)) =>
          LET out == AddAppResult(c, managers[c].userAddress, h, a, p)
          IN  /\ out.err = "none"
              /\ HasApp(out.st.m, h, a)
              /\ Len(out.st.m.deviceAppIds[h]) = Len(managers[c].deviceAppIds[h]) + 1
              /\ a \in Elems(out.st.m.deviceAppIds[h])

\* C7: no device's app ID list holds an app ID twice.
C7_NoDuplicateAppIds ==
    \A c \in Deployed : \A h \in DOMAIN managers[c].deviceAppIds :
       LET ids == managers[c].deviceAppIds[h]
       IN  \A i, j \in 1..Len(ids) : ids[i] = ids[j] => i = j

\* C7 witness: addAppToDevice has just succeeded for an app that already had an
\* entry on the device (a repeated grant).
C7_Witness ==
    /\ lastCall.op = "addAppToDevice"
    /\ lastCall.err = "none"
    /\ lastCall.existed

\* C8 (as claimed): each device's app ID list holds exactly the app IDs that have
\* a permission entry on the device, and its length is their number.
C8_AppListComplete ==
    \A c \in Deployed : \A h \in DOMAIN managers[c].deviceAppIds :
       LET granted == { a \in AppIds : HasApp(managers[c], h, a) }
       IN  /\ Elems(managers[c].deviceAppIds[h]) = granted
           /\ Len(managers[c].deviceAppIds[h]) = Cardinality(granted)

\* C9: addAppToDevice and updateAppPermission sent by anyone but userAddress fail
\* with Unauthorized, change nothing and log nothing, whatever the arguments.
C9_OwnerOnlyApps ==
    \A c \in Deployed : \A sender \in Callers, h \in AllHashes(c), a \in AppIds,
       p \in Permissions :
       sender # managers[c].userAddress =>
          /\ AddAppResult(c, sender, h, a, p).err = "Unauthorized"
          /\ AddAppResult(c, sender, h, a, p).st = Storage(c)
          /\ AddAppResult(c, sender, h, a, p).events = <<>>
          /\ UpdateAppResult(c, sender, h, a, p).err = "Unauthorized"
          /\ UpdateAppResult(c, sender, h, a, p).st = Storage(c)
          /\ UpdateAppResult(c, sender, h, a, p).events = <<>>

\* C9 witness: an app call was rejected as Unauthorized on an instance whose
\* device already has an app entry.
C9_Witness ==
    /\ lastCall.op \in {"addAppToDevice", "updateAppPermission"}
    /\ lastCall.err = "Unauthorized"
    /\ \E c \in Deployed : DOMAIN managers[c].deviceApps # {}

\* C10 (as claimed): no call sent by anyone but userAddress changes the devices
\* mapping or the deviceHashes list of the instance.
C10_OnlyUserChangesDevices ==
    \A c \in Deployed, sender \in Callers :
       sender # managers[c].userAddress =>
          /\ \A t \in DeviceInputs, root \in Roots, n \in ProofNullifiers,
                proof \in Proofs :
                LET out == AddDeviceResult(c, t[1], t[2], t[3], root, n, proof)
                IN  /\ out.st.m.devices = managers[c].devices
                    /\ out.st.m.deviceHashes = managers[c].deviceHashes
          /\ \A h \in AllHashes(c), a \in AppIds, p \in Permissions :
                /\ AddAppResult(c, sender, h, a, p).st.m.devices = managers[c].devices
                /\ UpdateAppResult(c, sender, h, a, p).st.m.devices = managers[c].devices

C12_UpdateByOwner ==
    \A c \in Deployed : \A h \in AllHashes(c), a \in AppIds, p \in Permissions :
       p <= 3 =>
          LET m == managers[c]
              out == UpdateAppResult(c, m.userAddress, h, a, p)
          IN  /\ ~Exists(m, h) =>
                    /\ out.err = "DeviceNotFound"
                    /\ out.st = Storage(c)
              /\ Exists(m, h) /\ ~HasApp(m, h, a) =>
                    /\ out.err = "AppNotFound"
                    /\ out.st = Storage(c)
              /\ Exists(m, h) /\ HasApp(m, h, a) =>
                    /\ out.err = "none"
                    /\ getAppPermission(out.st.m, h, a)
                          = Returned([permission |-> p, exists |-> TRUE])
                    /\ getDeviceAppCount(out.st.m, h) = getDeviceAppCount(m, h)
                    /\ getDeviceAppIds(out.st.m, h) = getDeviceAppIds(m, h)

\* C12 witness: userAddress has just updated an entry that existed, on an
\* instance where another (device, app) pair has no entry.
C12_Witness ==
    /\ lastCall = [op |-> "updateAppPermission", err |-> "none", existed |-> TRUE]
    /\ \E c \in Deployed : \E h \in AllHashes(c), a \in AppIds :
          Exists(managers[c], h) /\ ~HasApp(managers[c], h, a)

\* C13 (as claimed): the read accessors never return a defaulted structure:
\* getDevice, getAppPermission, getDeviceAppIds and getDeviceAppCount fail with
\* DeviceNotFound for a device hash that was never added, and getAppPermission
\* fails with AppNotFound for an existing device and an app ID never granted on it.
C13_ReadsNeverDefault ==
    \A c \in Deployed : \A h \in AllHashes(c), a \in AppIds :
       LET m == managers[c]
       IN  /\ ~Exists(m, h) =>
                 /\ getDevice(m, h) = Reverted("DeviceNotFound")
                 /\ getAppPermission(m, h, a) = Reverted("DeviceNotFound")
                 /\ getDeviceAppIds(m, h) = Reverted("DeviceNotFound")
                 /\ getDeviceAppCount(m, h) = Reverted("DeviceNotFound")
           /\ Exists(m, h) /\ ~HasApp(m, h, a) =>
                 getAppPermission(m, h, a) = Reverted("AppNotFound")

\* C14: for a device that exists and has had no app granted, getDeviceAppIds
\* returns the empty sequence and getDeviceAppCount returns 0, without error;
\* the device a successful addDevice has just stored is in this state.
C14_NoAppsReadsEmpty ==
    \A c \in Deployed :
       /\ \A h \in AllHashes(c) :
             Exists(managers[c], h) /\ (\A a \in AppIds : ~HasApp(managers[c], h, a)) =>
                /\ getDeviceAppIds(managers[c], h) = Returned(<<>>)
                /\ getDeviceAppCount(managers[c], h) = Returned(0)
       /\ \A t \in DeviceInputs, root \in Roots, n \in ProofNullifiers, proof \in Proofs :
             LET out == AddDeviceResult(c, t[1], t[2], t[3], root, n, proof)
                 h == DeviceHash(t[1], managers[c].ensDomain, t[2], t[3])
             IN  out.err = "none" =>
                    /\ Exists(out.st.m, h)
                    /\ \A a \in AppIds : ~HasApp(out.st.m, h, a)
                    /\ getDeviceAppIds(out.st.m, h) = Returned(<<>>)
                    /\ getDeviceAppCount(out.st.m, h) = Returned(0)

\* C14 witness: addDevice has just returned and an instance holds a device with
\* no app entry.
C14_Witness ==
    /\ lastCall.op = "addDevice"
    /\ lastCall.err = "none"
    /\ \E c \in Deployed : \E h \in AllHashes(c) :
          Exists(managers[c], h) /\ \A a \in AppIds : ~HasApp(managers[c], h, a)

\* the users and the domains that successful creates were made for
CreatedUsers == { managers[c].userAddress : c \in Deployed }

ClaimedDomains == { managers[c].ensDomain : c \in Deployed }

\* C15 (as claimed): a factory lookup fails with ContractNotFound exactly when
\* its key is absent: getUserContract(u) iff no instance was created for u,
\* getUserByDomain(d) and getContractByDomain(d) iff no successful create
\* claimed d; no lookup returns the zero address; hasUserContract(u) and
\* isDomainRegistered(d) are true exactly when the lookup succeeds.
C15_LookupsFailIffAbsent ==
    /\ \A u \in Users :
          /\ getUserContract(u) = Reverted("ContractNotFound") <=> u \notin CreatedUsers
          /\ getUserContract(u).err = "none" => getUserContract(u).ret # ZeroAddress
          /\ hasUserContract(u) <=> getUserContract(u).err = "none"
    /\ \A d \in EnsDomains :
          /\ getUserByDomain(d) = Reverted("ContractNotFound") <=> d \notin ClaimedDomains
          /\ getContractByDomain(d) = Reverted("ContractNotFound") <=> d \notin ClaimedDomains
          /\ getUserByDomain(d).err = "none" => getUserByDomain(d).ret # ZeroAddress
          /\ getContractByDomain(d).err = "none" => getContractByDomain(d).ret # ZeroAddress
          /\ isDomainRegistered(d) <=> getUserByDomain(d).err = "none"
          /\ isDomainRegistered(d) <=> getContractByDomain(d).err = "none"

\* C16: deployUserDeviceManager sent by anyone but the owner of the factory
\* fails with Unauthorized and leaves userContracts, domainToUser and
\* allContracts as they were, whatever the other arguments are.
C16_DeployOwnerOnly ==
    \A sender \in Callers, u \in Users, d \in EnsDomains, n \in UserNullifiers :
       sender # owner =>
          LET out == DeployResult(sender, u, d, n)
          IN  /\ out.err = "Unauthorized"
              /\ out.st.userContracts = userContracts
              /\ out.st.domainToUser = domainToUser
              /\ out.st.allContracts = allContracts

\* C16 witness: a create has just been rejected as Unauthorized by a factory
\* that already holds an instance.
C16_Witness ==
    /\ lastCall.op = "deployUserDeviceManager"
    /\ lastCall.err = "Unauthorized"
    /\ getTotalContracts >= 1

\* C17 (as claimed): the factory mappings are write-once: an entry of
\* userContracts or of domainToUser, once written by a successful create, is
\* changed by no later operation, and a step writes one mapping only when it
\* writes the other.
C17_WriteOnceStep ==
    /\ \A u \in DOMAIN userContracts :
          u \in DOMAIN userContracts' /\ userContracts'[u] = userContracts[u]
    /\ \A d \in DOMAIN domainToUser :
          d \in DOMAIN domainToUser' /\ domainToUser'[d] = domainToUser[d]
    /\ userContracts' # userContracts <=> domainToUser' # domainToUser

C17_WriteOnce == [][C17_WriteOnceStep]_vars

\* C18: a successful deployUserDeviceManager(u, d, n) creates one new instance,
\* sets userContracts[u] to it and domainToUser[d] to u, appends it as the last
\* element of allContracts and emits exactly one UserDeviceManagerDeployed event
\* carrying (u, d, the address it returns, n); so getTotalContracts is the number
\* of instances created and getAllContracts lists them in creation order.
C18_DeployEffects ==
    /\ \A sender \in Callers, u \in Users, d \in EnsDomains, n \in UserNullifiers :
          LET out == DeployResult(sender, u, d, n)
          IN  out.err = "none" =>
                 /\ out.ret \notin Deployed
                 /\ DOMAIN out.st.managers = Deployed \cup {out.ret}
                 /\ out.st.managers[out.ret].userAddress = u
                 /\ out.st.managers[out.ret].ensDomain = d
                 /\ \A c \in Deployed : out.st.managers[c] = managers[c]
                 /\ out.st.userContracts[u] = out.ret
                 /\ out.st.domainToUser[d] = u
                 /\ out.st.allContracts = Append(allContracts, out.ret)
                 /\ out.events = << [event |-> "UserDeviceManagerDeployed",
                                     userAddress |-> u, ensDomain |-> d,
                                     contractAddress |-> out.ret,
                                     userNullifierHash |-> n] >>
    /\ getTotalContracts = Cardinality(Deployed)
    /\ \A i \in 1..Len(getAllContracts) : getAllContracts[i] = ContractAddresses[i]

\* C18 witness: the second create has just returned.
C18_Witness ==
    /\ lastCall.op = "deployUserDeviceManager"
    /\ lastCall.err = "none"
    /\ getTotalContracts = 2

\* C19: once a device is stored, no later operation by any caller changes its
\* model, subdomain, deviceAddress or deviceNullifier or removes it; only its
\* app permissions change.
C19_DeviceKeptStep ==
    \A c \in Deployed :
       /\ c \in DOMAIN managers'
       /\ \A h \in DOMAIN managers[c].devices :
             managers[c].devices[h].exists =>
                /\ h \in DOMAIN managers'[c].devices
                /\ managers'[c].devices[h] = managers[c].devices[h]

C19_DeviceKept == [][C19_DeviceKeptStep]_vars

\* C19 witness: an instance holds two devices, one of them with an app entry
\* whose level has just been updated.
C19_Witness ==
    /\ lastCall = [op |-> "updateAppPermission", err |-> "none", existed |-> TRUE]
    /\ \E c \in Deployed : getDeviceCount(managers[c]) = 2

\* C20: a successful addDevice(model, deviceAddress, deviceNullifier, root,
\* nullifierHash, proof) stores under its identity hash a device whose subdomain
\* is model + "." + ensDomain and whose model, deviceAddress and deviceNullifier
\* are the arguments, raises getDeviceCount by one, appends the identity hash as
\* the last element of getAllDeviceHashes and marks nullifierHash consumed.
C20_AddDeviceEffects ==
    \A c \in Deployed : \A t \in DeviceInputs, root \in Roots, n \in ProofNullifiers,
       proof \in Proofs :
       LET out == AddDeviceResult(c, t[1], t[2], t[3], root, n, proof)
           h == DeviceHash(t[1], managers[c].ensDomain, t[2], t[3])
       IN  out.err = "none" =>
              /\ getDevice(out.st.m, h)
                    = Returned([model |-> t[1],
                                subdomain |-> t[1] \o <<".">> \o managers[c].ensDomain,
                                deviceAddress |-> t[2], deviceNullifier |-> t[3],
                                exists |-> TRUE])
              /\ getDeviceCount(out.st.m) = getDeviceCount(managers[c]) + 1
              /\ getAllDeviceHashes(out.st.m) = Append(getAllDeviceHashes(managers[c]), h)
              /\ n \in Consumed(out.st.m)
              /\ n \notin Consumed(managers[c])

\* C20 witness: addDevice has just returned for the second device of an
\* instance, whose two proof nullifiers are consumed.
C20_Witness ==
    /\ lastCall.op = "addDevice"
    /\ lastCall.err = "none"
    /\ \E c \in Deployed :
          /\ getDeviceCount(managers[c]) = 2
          /\ Consumed(managers[c]) = ProofNullifiers

\* the instance a successful create for (u, d, n) makes holds u, d and n and no device
C21_CreatedInv ==
    \A sender \in Callers, u \in Users, d \in EnsDomains, n \in UserNullifiers :
       LET out == DeployResult(sender, u, d, n)
       IN  out.err = "none" =>
              /\ out.st.managers[out.ret].userAddress = u
              /\ out.st.managers[out.ret].ensDomain = d
              /\ out.st.managers[out.ret].userNullifierHash = n
              /\ getDeviceCount(out.st.managers[out.ret]) = 0

\* no step changes the three values of an instance
C21_TripleKeptStep ==
    \A c \in Deployed :
       /\ c \in DOMAIN managers'
       /\ managers'[c].userAddress = managers[c].userAddress
       /\ managers'[c].ensDomain = managers[c].ensDomain
       /\ managers'[c].userNullifierHash = managers[c].userNullifierHash

\* C21: an instance created by deployUserDeviceManager(u, d, n) reports
\* userAddress = u, ensDomain = d and userNullifierHash = n and starts with
\* getDeviceCount = 0, and the three values never change under any later operation.
C21_ImmutableTriple == []C21_CreatedInv /\ [][C21_TripleKeptStep]_vars

\* C21 witness: an instance that has taken a device has just taken an app grant
\* and still holds the domain and the user nullifier it was created with.
C21_Witness ==
    /\ lastCall.op = "addAppToDevice"
    /\ lastCall.err = "none"
    /\ \E c \in Deployed :
          /\ getDeviceCount(managers[c]) = 1
          /\ managers[c].ensDomain \in EnsDomains
          /\ managers[c].userNullifierHash \in UserNullifiers

\* a failed call, in any state and for any input, leaves the storage as it was,
\* and the same call made again on what it left fails with the same error; an
\* addDevice for a stored device identity adds no device
C22_RetryInv ==
    /\ \A sender \in Callers, u \in Users, d \in EnsDomains, n \in UserNullifiers :
          DeployResult(sender, u, d, n).err # "none" =>
             DeployResult(sender, u, d, n).st = FactoryStorage
    /\ \A c \in Deployed :
          /\ \A t \in DeviceInputs, root \in Roots, n \in ProofNullifiers, proof \in Proofs :
                LET out == AddDeviceResult(c, t[1], t[2], t[3], root, n, proof)
                    again == Settle(out.st, addDevice(out.st.m, out.st.ens, t[1], t[2],
                                                      t[3], root, n, proof))
                    h == DeviceHash(t[1], managers[c].ensDomain, t[2], t[3])
                IN  /\ out.err # "none" =>
                          /\ out.st = Storage(c)
                          /\ again.err = out.err
                          /\ again.st = Storage(c)
                    /\ Exists(managers[c], h) =>
                          /\ out.err # "none"
                          /\ getDeviceCount(out.st.m) = getDeviceCount(managers[c])
                          /\ getDeviceCount(again.st.m) = getDeviceCount(managers[c])
          /\ \A sender \in Callers, h \in AllHashes(c), a \in AppIds, p \in Permissions :
                LET add == AddAppResult(c, sender, h, a, p)
                    addAgain == Settle(add.st, addAppToDevice(add.st.m, add.st.ens,
                                                              sender, h, a, p))
                    upd == UpdateAppResult(c, sender, h, a, p)
                    updAgain == Settle(upd.st, updateAppPermission(upd.st.m, upd.st.ens,
                                                                   sender, h, a, p))
                IN  /\ add.err # "none" =>
                          /\ add.st = Storage(c)
                          /\ addAgain.err = add.err
                          /\ addAgain.st = Storage(c)
                    /\ upd.err # "none" =>
                          /\ upd.st = Storage(c)
                          /\ updAgain.err = upd.err
                          /\ updAgain.st = Storage(c)

\* a step that is a failed call changes no storage, and the same call made in
\* the state it leads to fails with the same error and would change nothing
C22_RetryStep ==
    /\ lastCall'.err # "none" /\ lastCall' # lastCall =>
          UNCHANGED <<factoryVars, managers, ens>>
    /\ \A sender \in Callers, u \in Users, d \in EnsDomains, n \in UserNullifiers :
          DeployUserDeviceManager(sender, u, d, n)
             /\ DeployResult(sender, u, d, n).err # "none" =>
                /\ DeployResult(sender, u, d, n)'.err = DeployResult(sender, u, d, n).err
                /\ DeployResult(sender, u, d, n)'.st = FactoryStorage
    /\ \A c \in Deployed :
          \A sender \in Callers, t \in SysDeviceInputs, root \in Roots,
             n \in SysProofNullifiers, proof \in SysProofs :
             AddDevice(c, sender, t[1], t[2], t[3], root, n, proof)
                /\ AddDeviceResult(c, t[1], t[2], t[3], root, n, proof).err # "none" =>
                   /\ AddDeviceResult(c, t[1], t[2], t[3], root, n, proof)'.err
                         = AddDeviceResult(c, t[1], t[2], t[3], root, n, proof).err
                   /\ AddDeviceResult(c, t[1], t[2], t[3], root, n, proof)'.st = Storage(c)

\* C22: the operations are idempotent by rejection: a failed factory or
\* instance call made again with the same arguments by the same caller, with no
\* operation in between, fails with the same error and changes no state, and an
\* addDevice made again for a stored device identity creates no second device.
C22_IdempotentByRejection == []C22_RetryInv /\ [][C22_RetryStep]_vars

\* C22 witness: a create has just failed on a claimed domain, in a factory one
\* of whose instances holds a device.
C22_Witness ==
    /\ lastCall.op = "deployUserDeviceManager"
    /\ lastCall.err = "DomainAlreadyRegistered"
    /\ \E c \in Deployed : getDeviceCount(managers[c]) = 1

\* a nullifier consumed in one instance is not a replay in another
C23_NullifierPerInstance ==
    \A c \in Deployed : \A c2 \in Deployed \ {c} :
       \A n \in Consumed(managers[c]) \ Consumed(managers[c2]) :
          \A t \in DeviceInputs, root \in Roots :
             /\ AddDeviceResult(c2, t[1], t[2], t[3], root, n, "valid").err
                   # "DuplicateNullifier"
             /\ ~Exists(managers[c2], DeviceHash(t[1], managers[c2].ensDomain, t[2], t[3]))
                   => AddDeviceResult(c2, t[1], t[2], t[3], root, n, "valid").err = "none"

\* a call to an instance changes at most that instance and nothing of the factory
C23_FrameStep ==
    lastCall'.op \in {"addDevice", "addAppToDevice", "updateAppPermission"}
       /\ vars' # vars =>
          /\ UNCHANGED factoryVars
          /\ DOMAIN managers' = DOMAIN managers
          /\ Cardinality({ c \in Deployed : managers'[c] # managers[c] }) <= 1

\* C23: instances share no state: an operation on one instance, successful or
\* failed, leaves the devices, app permissions, app ID lists and consumed
\* nullifiers of every other instance and the mappings and list of the factory
\* unchanged, and a proof nullifier consumed in one instance is usable in another.
C23_NoSharedState == []C23_NullifierPerInstance /\ [][C23_FrameStep]_vars

\* C23 witness: of two instances one has just taken a device and consumed a
\* nullifier that the other has not consumed.
C23_Witness ==
    /\ lastCall.op = "addDevice"
    /\ lastCall.err = "none"
    /\ \E c \in Deployed : \E c2 \in Deployed \ {c} :
          Consumed(managers[c]) \ Consumed(managers[c2]) # {}

\* C24: the device identity hash depends only on (subdomain, deviceAddress,
\* deviceNullifier): two addDevice calls on one instance address the same device
\* iff their (model, deviceAddress, deviceNullifier) are equal, whatever the
\* root, proof nullifier and proof are; calls that differ in one of the three
\* fields, made under fresh proof nullifiers, create two coexisting devices.
C24_IdentityIsTriple ==
    \A c \in Deployed : \A t1 \in DeviceInputs, t2 \in DeviceInputs :
       LET m == managers[c]
           h1 == DeviceHash(t1[1], m.ensDomain, t1[2], t1[3])
           h2 == DeviceHash(t2[1], m.ensDomain, t2[2], t2[3])
       IN  /\ h1 = h2 <=> t1 = t2
           /\ \A r1 \in Roots, r2 \in Roots, n1 \in ProofNullifiers, n2 \in ProofNullifiers,
                 p1 \in Proofs, p2 \in Proofs :
                 LET first == AddDeviceResult(c, t1[1], t1[2], t1[3], r1, n1, p1)
                     second == Settle(first.st,
                                      addDevice(first.st.m, first.st.ens, t2[1], t2[2],
                                                t2[3], r2, n2, p2))
                 IN  first.err = "none" /\ n2 \notin Consumed(first.st.m)
                        /\ Accepts(m, r2, n2, p2) /\ ~Exists(m, h2) =>
                        /\ second.err = "DeviceAlreadyExists" <=> t1 = t2
                        /\ t1 # t2 =>
                              /\ second.err = "none"
                              /\ Exists(second.st.m, h1) /\ Exists(second.st.m, h2)
                              /\ getDeviceCount(second.st.m) = getDeviceCount(m) + 2

\* C24 witness: an instance holds two devices that differ only in the device
\* nullifier.
C24_Witness ==
    \E c \in Deployed :
       /\ Exists(managers[c], DeviceHash(<<"p">>, managers[c].ensDomain, "d1", 42))
       /\ Exists(managers[c], DeviceHash(<<"p">>, managers[c].ensDomain, "d1", 43))

\* C25: addAppToDevice is create-or-overwrite: after a successful
\* addAppToDevice(deviceHash, appId, p), getAppPermission(deviceHash, appId)
\* gives permission p and exists = true whether or not the pair had an entry,
\* and a grant for a pair that had one does not lengthen the app ID list.
C25_CreateOrOverwrite ==
    \A c \in Deployed : \A sender \in Callers, h \in AllHashes(c), a \in AppIds,
       p \in Permissions :
       LET out == AddAppResult(c, sender, h, a, p)
       IN  out.err = "none" =>
              /\ getAppPermission(out.st.m, h, a)
                    = Returned([permission |-> p, exists |-> TRUE])
              /\ HasApp(managers[c], h, a) =>
                    /\ getDeviceAppIds(out.st.m, h) = getDeviceAppIds(managers[c], h)
                    /\ getDeviceAppCount(out.st.m, h) = getDeviceAppCount(managers[c], h)

\* C25 witness: a grant has just been made for a pair that had an entry, on an
\* instance with two entries of different levels.
C25_Witness ==
    /\ lastCall = [op |-> "addAppToDevice", err |-> "none", existed |-> TRUE]
    /\ \E c \in Deployed :
          \E k1 \in DOMAIN managers[c].deviceApps, k2 \in DOMAIN managers[c].deviceApps :
             managers[c].deviceApps[k1].permission # managers[c].deviceApps[k2].permission

\* the list holds no hash twice and holds exactly the hashes of the stored devices
C26_ListInv ==
    \A c \in Deployed :
       LET hashes == getAllDeviceHashes(managers[c])
       IN  /\ \A i \in 1..Len(hashes), j \in 1..Len(hashes) :
                hashes[i] = hashes[j] => i = j
           /\ Elems(hashes) = { h \in DOMAIN managers[c].devices :
                                  managers[c].devices[h].exists }
           /\ getDeviceCount(managers[c]) = Len(hashes)

\* a step keeps the entries of the list at their positions, and the count goes
\* up by one on a successful addDevice and stays on every other step
C26_ListStep ==
    \A c \in Deployed :
       LET old == getAllDeviceHashes(managers[c])
           new == getAllDeviceHashes(managers[c])'
           added == /\ lastCall'.op = "addDevice"
                    /\ lastCall'.err = "none"
                    /\ managers'[c] # managers[c]
       IN  /\ Len(new) >= Len(old)
           /\ \A i \in 1..Len(old) : new[i] = old[i]
           /\ getDeviceCount(managers[c])'
                 = getDeviceCount(managers[c]) + (IF added THEN 1 ELSE 0)

\* C26: in every reachable state of an instance getAllDeviceHashes holds no hash
\* twice and holds exactly the hashes of the devices that exist; earlier entries
\* keep their positions as devices are appended; getDeviceCount, 0 at creation,
\* is the number of successful addDevice calls so far.
C26_DeviceList == []C26_ListInv /\ [][C26_ListStep]_vars

\* C26 witness: an instance lists two devices in the order they were added,
\* which is not the order of their inputs in the alphabet.
C26_Witness ==
    \E c \in Deployed :
       getAllDeviceHashes(managers[c])
          = << DeviceHash(<<"w">>, managers[c].ensDomain, "d1", 42),
               DeviceHash(<<"p">>, managers[c].ensDomain, "d1", 42) >>

\* C27: a successful updateAppPermission(deviceHash, appId, newLevel) emits
\* exactly one AppPermissionUpdated event, whose old level is the level stored
\* for the pair before the call and whose new level is the level stored after
\* it; a failed call emits no event.
C27_UpdateEvent ==
    \A c \in Deployed : \A sender \in Callers, h \in AllHashes(c), a \in AppIds,
       p \in Permissions :
       LET out == UpdateAppResult(c, sender, h, a, p)
       IN  /\ out.err = "none" =>
                out.events
                   = << [event |-> "AppPermissionUpdated", deviceHash |-> h, appId |-> a,
                         oldPermission |-> managers[c].deviceApps[<<h, a>>].permission,
                         newPermission |-> out.st.m.deviceApps[<<h, a>>].permission] >>
           /\ out.err # "none" => out.events = <<>>

\* C27 witness: a level has just been updated on an instance that holds an
\* entry of level 0 and an entry of level 3.
C27_Witness ==
    /\ lastCall = [op |-> "updateAppPermission", err |-> "none", existed |-> TRUE]
    /\ \E c \in Deployed :
          \E k1 \in DOMAIN managers[c].deviceApps, k2 \in DOMAIN managers[c].deviceApps :
             /\ managers[c].deviceApps[k1].permission = 0
             /\ managers[c].deviceApps[k2].permission = 3

\* C28: addDevice checks the proof nullifier before the device identity: a call
\* whose nullifierHash is consumed fails with DuplicateNullifier whether or not
\* its device identity is present, and DeviceAlreadyExists is the error exactly
\* of the calls whose nullifierHash is fresh, whose proof the verifier accepts and
\* whose device identity is present.
C28_NullifierBeforeIdentity ==
    \A c \in Deployed : \A t \in DeviceInputs, root \in Roots, n \in ProofNullifiers,
       proof \in Proofs :
       LET m == managers[c]
           err == AddDeviceResult(c, t[1], t[2], t[3], root, n, proof).err
           present == Exists(m, DeviceHash(t[1], m.ensDomain, t[2], t[3]))
       IN  /\ n \in Consumed(m) => err = "DuplicateNullifier"
           /\ err = "DeviceAlreadyExists"
                 <=> n \notin Consumed(m) /\ Accepts(m, root, n, proof) /\ present

\* C28 witness: an addDevice for a stored device has just been rejected as a
\* replay on an instance whose nullifiers are all consumed.
C28_Witness ==
    /\ lastCall = [op |-> "addDevice", err |-> "DuplicateNullifier", existed |-> TRUE]
    /\ \E c \in Deployed : Consumed(managers[c]) = ProofNullifiers

\* C29 (as claimed): in every reachable state of the factory the users with an
\* instance and the claimed domains correspond one to one: allContracts has as
\* many entries as there are users u with userContracts[u] set and as there are
\* domains d with isDomainRegistered(d); no two domains map to the same user;
\* every registered domain maps to a user that has an instance.
C29_UsersDomainsOneToOne ==
    LET withContract == { u \in Users : hasUserContract(u) }
        registered == { d \in EnsDomains : isDomainRegistered(d) }
    IN  /\ getTotalContracts = Cardinality(withContract)
        /\ getTotalContracts = Cardinality(registered)
        /\ \A d1 \in registered, d2 \in registered :
              domainToUser[d1] = domainToUser[d2] => d1 = d2
        /\ \A d \in registered : hasUserContract(domainToUser[d])

\* an app permission entry exists only for a device that exists
C30_AppsOnDevices ==
    \A c \in Deployed : \A k \in DOMAIN managers[c].deviceApps :
       managers[c].deviceApps[k].exists => Exists(managers[c], k[1])

\* what exists or is consumed before a step exists or is consumed after it
C30_GrowsStep ==
    \A c \in Deployed :
       /\ c \in DOMAIN managers'
       /\ \A h \in DOMAIN managers[c].devices :
             Exists(managers[c], h) => Exists(managers[c], h)'
       /\ \A k \in DOMAIN managers[c].deviceApps :
             HasApp(managers[c], k[1], k[2]) => HasApp(managers[c], k[1], k[2])'
       /\ Consumed(managers[c]) \subseteq Consumed(managers[c])'

\* C30: the state of an instance only grows: a device that exists, an app
\* permission entry that exists and a proof nullifier that is consumed stay so
\* in every later state, and an app permission entry exists only for a device
\* that exists.
C30_OnlyGrows == []C30_AppsOnDevices /\ [][C30_GrowsStep]_vars

\* C30 witness: a grant on an absent device has just been rejected on an
\* instance that holds a device with an app entry and a consumed nullifier.
C30_Witness ==
    /\ lastCall.op = "addAppToDevice"
    /\ lastCall.err = "DeviceNotFound"
    /\ \E c \in Deployed :
          /\ DOMAIN managers[c].deviceApps # {}
          /\ Consumed(managers[c]) # {}

\* what a call on (deviceHash, appId) that took m to m2 has left alone
AppFrame(m, m2, deviceHash, appId) ==
    /\ \A k \in (DOMAIN m.deviceApps \cup DOMAIN m2.deviceApps) \ {<<deviceHash, appId>>} :
          /\ k \in DOMAIN m.deviceApps
          /\ k \in DOMAIN m2.deviceApps
          /\ m2.deviceApps[k] = m.deviceApps[k]
    /\ \A h \in (DOMAIN m.deviceAppIds \cup DOMAIN m2.deviceAppIds) \ {deviceHash} :
          Get(m2.deviceAppIds, h, <<>>) = Get(m.deviceAppIds, h, <<>>)
    /\ m2.devices = m.devices
    /\ m2.deviceHashes = m.deviceHashes
    /\ m2.nullifierHashes = m.nullifierHashes

\* C31: addAppToDevice and updateAppPermission on (deviceHash, appId) leave
\* unchanged the permission entries and app ID lists of every other device, the
\* permission entries of every other app ID on the device, the device records,
\* the device hash list and the consumed nullifiers.
C31_AppOpsFrame ==
    \A c \in Deployed : \A sender \in Callers, h \in AllHashes(c), a \in AppIds,
       p \in Permissions :
       /\ AppFrame(managers[c], AddAppResult(c, sender, h, a, p).st.m, h, a)
       /\ AppFrame(managers[c], UpdateAppResult(c, sender, h, a, p).st.m, h, a)

\* C31 witness: an app call has just returned on an instance that holds app
\* entries on two devices.
C31_Witness ==
    /\ lastCall.op \in {"addAppToDevice", "updateAppPermission"}
    /\ lastCall.err = "none"
    /\ \E c \in Deployed :
          \E k1 \in DOMAIN managers[c].deviceApps, k2 \in DOMAIN managers[c].deviceApps :
             k1[1] # k2[1]

(***************************************************************************)
(* The register page: withRetry.  One execution of withRetry is a record:  *)
(* the options it resolved, the loop counter, lastError, where it stands   *)
(* (at the loop head, awaiting fn, sleeping, returned, thrown) and what it *)
(* settled with.  calls counts the invocations of fn and lastOutcome is    *)
(* what the last invocation ended with.  fn settles every call, with any   *)
(* value or any error.                                                     *)
(***************************************************************************)
\* the options withRetry is called with; the empty record is "no options"
NoOpts == [x \in {} |-> 0]

RetryOpts ==
    { NoOpts, [retries |-> 0], [retries |-> 1], [retries |-> 0 - 1],
      [retries |-> 6, baseDelayMs |-> 800] }

\* what fn resolves with
FnValues == { [value |-> "0x14a34"], [value |-> "0xtxhash"] }

\* errors by what withRetry reads of them: code, three places where the circuit
\* breaker shows, and two texts that mark a rate limit
FnErrors ==
    { [code |-> 0 - 32603, messageCircuitOpen |-> TRUE, causeIsBrokenCircuit |-> FALSE,
       dataMessageCircuit |-> FALSE, messageRateLimit |-> FALSE, message32005 |-> FALSE],
      [code |-> 0 - 32603, messageCircuitOpen |-> FALSE, causeIsBrokenCircuit |-> FALSE,
       dataMessageCircuit |-> FALSE, messageRateLimit |-> FALSE, message32005 |-> FALSE],
      [code |-> 4001, messageCircuitOpen |-> TRUE, causeIsBrokenCircuit |-> FALSE,
       dataMessageCircuit |-> FALSE, messageRateLimit |-> FALSE, message32005 |-> FALSE],
      [code |-> 429, messageCircuitOpen |-> FALSE, causeIsBrokenCircuit |-> FALSE,
       dataMessageCircuit |-> FALSE, messageRateLimit |-> TRUE, message32005 |-> FALSE],
      [code |-> 4001, messageCircuitOpen |-> FALSE, causeIsBrokenCircuit |-> FALSE,
       dataMessageCircuit |-> FALSE, messageRateLimit |-> FALSE, message32005 |-> FALSE] }

undefined == [undefined |-> TRUE]

DefaultRetries == 4

DefaultBaseDelayMs == 600

Pow2(n) ==
    LET RECURSIVE P(_)
        P(k) == IF k = 0 THEN 1 ELSE 2 * P(k - 1)
    IN  P(n)

isRetryable(e) ==
    LET isCircuitOpen ==
            /\ e.code = 0 - 32603
            /\ \/ e.messageCircuitOpen
               \/ e.causeIsBrokenCircuit
               \/ e.dataMessageCircuit
        isRateLimited == e.messageRateLimit \/ e.message32005
    IN  isCircuitOpen \/ isRateLimited

\* withRetry(fn, opts) up to the loop
withRetry(opts) ==
    [retries |-> IF "retries" \in DOMAIN opts THEN opts.retries ELSE DefaultRetries,
     baseDelayMs |-> IF "baseDelayMs" \in DOMAIN opts THEN opts.baseDelayMs
                     ELSE DefaultBaseDelayMs,
     attempt |-> 0, lastError |-> undefined, pc |-> "loop", delay |-> 0,
     settled |-> undefined, calls |-> 0, lastOutcome |-> undefined, opts |-> opts]

\* the contracts as they are while only the page runs
ChainIdle ==
    /\ owner = FactoryOwner
    /\ uniqueId = "MockUniqueId"
    /\ userContracts = EmptyMap
    /\ domainToUser = EmptyMap
    /\ allContracts = <<>>
    /\ managers = EmptyMap
    /\ ens = EmptyEns
    /\ lastCall = [op |-> "constructor", err |-> "none", existed |-> FALSE]

InitRetry ==
    /\ ChainIdle
    /\ flow = Unused
    /\ wallet = Unused
    /\ route = Unused
    /\ deriver = Unused
    /\ \E opts \in RetryOpts : retry = withRetry(opts)

\* the loop test passes and fn is called
withRetry_Try ==
    /\ retry.pc = "loop"
    /\ retry.attempt <= retry.retries
    /\ retry' = [retry EXCEPT !.pc = "await", !.calls = @ + 1]
    /\ UNCHANGED exceptRetry

\* the loop test fails: throw lastError
withRetry_LoopEnds ==
    /\ retry.pc = "loop"
    /\ ~(retry.attempt <= retry.retries)
    /\ retry' = [retry EXCEPT !.pc = "thrown", !.settled = retry.lastError]
    /\ UNCHANGED exceptRetry

\* fn resolves: return await fn()
withRetry_Return(value) ==
    /\ retry.pc = "await"
    /\ retry' = [retry EXCEPT !.pc = "returned", !.settled = value,
                              !.lastOutcome = value]
    /\ UNCHANGED exceptRetry

\* the catch block going on to the next attempt after any error
withRetry_Catch_AnyError(e) ==
    /\ retry.pc = "await"
    /\ IF retry.attempt < retry.retries
       THEN retry' = [retry EXCEPT !.lastError = e, !.lastOutcome = e, !.pc = "sleep",
                                   !.delay = retry.baseDelayMs * Pow2(retry.attempt)]
       ELSE retry' = [retry EXCEPT !.lastError = e, !.lastOutcome = e, !.pc = "thrown",
                                   !.settled = e]
    /\ UNCHANGED exceptRetry

\* fn rejects: the catch block, up to the sleep or to the throw after the break
withRetry_Catch(e) ==
    /\ retry.pc = "await"
    /\ IF retry.attempt < retry.retries /\ isRetryable(e)
       THEN retry' = [retry EXCEPT !.lastError = e, !.lastOutcome = e, !.pc = "sleep",
                                   !.delay = retry.baseDelayMs * Pow2(retry.attempt)]
       ELSE retry' = [retry EXCEPT !.lastError = e, !.lastOutcome = e, !.pc = "thrown",
                                   !.settled = e]
    /\ UNCHANGED exceptRetry

\* the sleep ends: continue, attempt++
withRetry_Continue ==
    /\ retry.pc = "sleep"
    /\ retry' = [retry EXCEPT !.pc = "loop", !.attempt = @ + 1]
    /\ UNCHANGED exceptRetry

NextRetry ==
    \/ withRetry_Try
    \/ withRetry_LoopEnds
    \/ \E value \in FnValues : withRetry_Return(value)
    \/ \E e \in FnErrors : withRetry_Catch(e)
    \/ withRetry_Continue

\* fn settles every call and every timer fires
SpecRetry == InitRetry /\ [][NextRetry]_vars /\ WF_vars(NextRetry)

\* fn is called at most retries + 1 times, 5 times without options; what
\* withRetry returns is what the call of fn that resolved gave, what it throws is
\* the error of the last call; an error that is not retryable is thrown after
\* the call that gave it
C32_RetryInv ==
    /\ retry.calls <= IF retry.retries >= 0 THEN retry.retries + 1 ELSE 0
    /\ retry.opts = NoOpts => retry.calls <= 5
    /\ retry.pc = "returned" =>
          retry.settled \in FnValues /\ retry.settled = retry.lastOutcome
    /\ retry.pc = "thrown" /\ retry.calls >= 1 =>
          /\ retry.settled \in FnErrors
          /\ retry.settled = retry.lastOutcome
          /\ ~isRetryable(retry.settled) \/ retry.calls = retry.retries + 1
    /\ retry.pc \in {"sleep", "loop"} /\ retry.calls >= 1 =>
          retry.lastOutcome \in FnErrors /\ isRetryable(retry.lastOutcome)

\* fn is called again only after a call that failed with a retryable error, and
\* a settled execution calls nothing more
C32_RetryStep ==
    /\ retry'.calls > retry.calls =>
          /\ retry'.calls = retry.calls + 1
          /\ retry.calls >= 1 =>
                retry.lastOutcome \in FnErrors /\ isRetryable(retry.lastOutcome)
    /\ retry.pc \in {"returned", "thrown"} => retry' = retry

\* C32: withRetry(fn, {retries}) calls fn at most retries + 1 times (5 by
\* default), calls it again only after a call failed with a retryable error
\* (circuit breaker open or rate limit), terminates when fn does, and settles
\* with the result of the first call that succeeds or else throws the error of
\* the last call made; an error that is not retryable is thrown after that call.
C32_WithRetry ==
    /\ []C32_RetryInv
    /\ [][C32_RetryStep]_vars
    /\ <>(retry.pc \in {"returned", "thrown"})

\* C32 witness: without options fn was called five times, failed with a
\* retryable error each time, and withRetry has thrown the last error.
C32_Witness ==
    /\ retry.opts = NoOpts
    /\ retry.pc = "thrown"
    /\ retry.calls = 5
    /\ isRetryable(retry.settled)

(***************************************************************************)
(* Register page: runFullFlow (src/unnamed/part_000 336-432), with         *)
(* switchToBaseSepolia / switchToSepolia (223-304), waitForChain (104-116) *)
(* and extractLogData (306-334).                                           *)
(*                                                                         *)
(* JavaScript runs one callback at a time: the code between two awaits is  *)
(* one step.  A throw, the catch block and the finally block have no await *)
(* between them, so a failing step resets the flags in the same step.      *)
(***************************************************************************)

\* bound: invocations of runFullFlow in one behaviour
MaxRuns == 3

\* the invocations that may overlap (two clicks of the button)
FlowCalls == {1, 2}

BaseSepolia == "0x14a34"

Sepolia == "0xaa36a7"

\* chains the wallet may be on: the two targets and another one
WalletChains == {BaseSepolia, Sepolia, "0x1"}

EnvVars == {"NEXT_PUBLIC_L2_REGISTRY", "NEXT_PUBLIC_L1_RESOLVER",
            "NEXT_PUBLIC_L2_REGISTRAR_BYTECODE"}

\* build configurations: everything configured, or one variable missing
EnvConfigs == {EnvVars} \cup {EnvVars \ {v} : v \in EnvVars}

null == "null"

\* the awaits of runFullFlow after its preconditions, in program order
FlowSteps ==
    << [kind |-> "switch",  arg |-> BaseSepolia],
       [kind |-> "config",  arg |-> "NEXT_PUBLIC_L2_REGISTRY"],
       [kind |-> "send",    arg |-> "deployRegistry"],
       [kind |-> "receipt", arg |-> "deployRegistry"],
       [kind |-> "switch",  arg |-> Sepolia],
       [kind |-> "config",  arg |-> "NEXT_PUBLIC_L1_RESOLVER"],
       [kind |-> "send",    arg |-> "setL2Registry"],
       [kind |-> "receipt", arg |-> "setL2Registry"],
       [kind |-> "switch",  arg |-> BaseSepolia],
       [kind |-> "config",  arg |-> "NEXT_PUBLIC_L2_REGISTRAR_BYTECODE"],
       [kind |-> "send",    arg |-> "deployL2Registrar"],
       [kind |-> "receipt", arg |-> "deployL2Registrar"],
       [kind |-> "send",    arg |-> "addRegistrar"],
       [kind |-> "receipt", arg |-> "addRegistrar"],
       [kind |-> "send",    arg |-> "register"],
       [kind |-> "receipt", arg |-> "register"] >>

\* what the wallet answers to the requests of one switchTo* call
SwitchResponses ==
    [ chainIdRead : {"ok", "error"},
      switchChain : {"ok", "4902", "rejected"},
      addChain    : {"switched", "notSwitched", "rejected"} ]

\* waitForChain: true when the wallet reports the target before the timeout,
\* false after it; a wallet that is not on the target never reports it
waitForChain(target, chain) == chain = target

\* switchToBaseSepolia / switchToSepolia with target 0x14a34 / 0xaa36a7
switchTo(target, chain, r) ==
    IF r.chainIdRead = "ok" /\ chain = target
    THEN [thrown |-> FALSE, chain |-> chain]
    ELSE IF r.switchChain = "ok"
    THEN LET reported == waitForChain(target, target)   \* result not used
         IN  [thrown |-> FALSE, chain |-> target]
    ELSE IF r.switchChain = "4902"
    THEN IF r.addChain = "rejected"
         THEN [thrown |-> TRUE, chain |-> chain]
         ELSE LET after == IF r.addChain = "switched" THEN target ELSE chain
                  reported == waitForChain(target, after)   \* result not used
              IN  [thrown |-> FALSE, chain |-> after]
    ELSE [thrown |-> TRUE, chain |-> chain]

\* receipts the external provider may deliver, reduced to what
\* extractLogData and the flow read from them
FlowReceipts ==
    [ rejected        : BOOLEAN,
      node            : {null, "0xnode"},
      registry        : {null, "0xregistry"},
      contractAddress : {null, "0xregistrar"} ]

\* extractLogData(receipt): topics[3] of the Transfer log and the registry
\* argument of the RegistryDeployed log, each null when absent
extractLogData(receipt) == [node |-> receipt.node, registry |-> receipt.registry]

\* the locals of one invocation; run numbers the invocations
FlowIdle ==
    [pc |-> "idle", run |-> 0, step |-> 0, sent |-> <<>>, awaited |-> 0,
     node |-> null, registry |-> null, registrarAddress |-> null]

Running(i) == flow.calls[i].pc = "run"

InitFlow ==
    /\ ChainIdle
    /\ retry = Unused
    /\ wallet = Unused
    /\ route = Unused
    /\ deriver = Unused
    /\ \E chain \in WalletChains, env \in EnvConfigs :
         flow = [inFlight |-> FALSE, isRegistering |-> FALSE, chain |-> chain,
                 env |-> env, runs |-> 0,
                 calls |-> [i \in FlowCalls |-> FlowIdle]]

\* catch and finally (426-431)
FlowFails(i, chain) ==
    flow' = [flow EXCEPT !.calls[i].pc = "failed", !.chain = chain,
                         !.isRegistering = FALSE, !.inFlight = FALSE]

\* the guard also runs the finally block
runFullFlow_Call_GuardInsideTry(i, ok) ==
    /\ flow.calls[i].pc # "run"
    /\ flow.runs < MaxRuns
    /\ IF flow.inFlight
       THEN flow' = [flow EXCEPT !.runs = @ + 1,
                                 !.calls[i] = [FlowIdle EXCEPT !.pc = "returned", !.run = flow.runs + 1],
                                 !.isRegistering = FALSE, !.inFlight = FALSE]
       ELSE IF ~ok
       THEN flow' = [flow EXCEPT !.runs = @ + 1,
                                 !.calls[i] = [FlowIdle EXCEPT !.pc = "failed", !.run = flow.runs + 1],
                                 !.isRegistering = FALSE, !.inFlight = FALSE]
       ELSE flow' = [flow EXCEPT !.runs = @ + 1,
                                 !.calls[i] = [FlowIdle EXCEPT !.pc = "run", !.run = flow.runs + 1,
                                                   !.step = 1],
                                 !.isRegistering = TRUE, !.inFlight = TRUE]
    /\ UNCHANGED exceptFlow

\* runFullFlow is called (337-345); ok: wallet connected, ENS name known
\* and a label entered
runFullFlow_Call(i, ok) ==
    /\ flow.calls[i].pc # "run"
    /\ flow.runs < MaxRuns
    /\ IF flow.inFlight
       THEN flow' = [flow EXCEPT !.runs = @ + 1,
                                 !.calls[i] = [FlowIdle EXCEPT !.pc = "returned", !.run = flow.runs + 1]]
       ELSE IF ~ok
       THEN flow' = [flow EXCEPT !.runs = @ + 1,
                                 !.calls[i] = [FlowIdle EXCEPT !.pc = "failed", !.run = flow.runs + 1],
                                 !.isRegistering = FALSE, !.inFlight = FALSE]
       ELSE flow' = [flow EXCEPT !.runs = @ + 1,
                                 !.calls[i] = [FlowIdle EXCEPT !.pc = "run", !.run = flow.runs + 1,
                                                   !.step = 1],
                                 !.isRegistering = TRUE, !.inFlight = TRUE]
    /\ UNCHANGED exceptFlow

\* await switchToBaseSepolia() / switchToSepolia(), ensureProviderReady, sleep
runFullFlow_Switch(i, r) ==
    /\ Running(i)
    /\ flow.calls[i].step <= Len(FlowSteps)
    /\ FlowSteps[flow.calls[i].step].kind = "switch"
    /\ LET out == switchTo(FlowSteps[flow.calls[i].step].arg, flow.chain, r)
       IN  IF out.thrown
           THEN FlowFails(i, out.chain)
           ELSE flow' = [flow EXCEPT !.chain = out.chain, !.calls[i].step = @ + 1]
    /\ UNCHANGED exceptFlow

\* process.env checks (352-353, 372-373, 389-390)
runFullFlow_Config(i) ==
    /\ Running(i)
    /\ flow.calls[i].step <= Len(FlowSteps)
    /\ FlowSteps[flow.calls[i].step].kind = "config"
    /\ IF FlowSteps[flow.calls[i].step].arg \in flow.env
       THEN flow' = [flow EXCEPT !.calls[i].step = @ + 1]
       ELSE FlowFails(i, flow.chain)
    /\ UNCHANGED exceptFlow

\* await sendMetaMaskTx(...): the wallet submits on its active chain and
\* answers with the hash, or the request is rejected
runFullFlow_Send(i, resolves) ==
    /\ Running(i)
    /\ flow.calls[i].step <= Len(FlowSteps)
    /\ FlowSteps[flow.calls[i].step].kind = "send"
    /\ IF resolves
       THEN flow' = [flow EXCEPT
                !.calls[i].sent = Append(@, [tx |-> FlowSteps[flow.calls[i].step].arg,
                                             chain |-> flow.chain]),
                !.calls[i].step = @ + 1]
       ELSE FlowFails(i, flow.chain)
    /\ UNCHANGED exceptFlow

\* no check of the extracted node and registry
runFullFlow_Receipt_NoExtractCheck(i, receipt) ==
    /\ Running(i)
    /\ flow.calls[i].step <= Len(FlowSteps)
    /\ FlowSteps[flow.calls[i].step].kind = "receipt"
    /\ LET tx == FlowSteps[flow.calls[i].step].arg
           data == extractLogData(receipt)
       IN  IF receipt.rejected
           THEN FlowFails(i, flow.chain)
           ELSE IF tx = "deployRegistry"
           THEN flow' = [flow EXCEPT !.calls[i].awaited = @ + 1,
                                     !.calls[i].node = data.node,
                                     !.calls[i].registry = data.registry,
                                     !.calls[i].step = @ + 1]
           ELSE IF tx = "deployL2Registrar"
           THEN IF receipt.contractAddress = null
                THEN flow' = [flow EXCEPT !.calls[i].awaited = @ + 1,
                                          !.calls[i].pc = "failed",
                                          !.isRegistering = FALSE, !.inFlight = FALSE]
                ELSE flow' = [flow EXCEPT !.calls[i].awaited = @ + 1,
                                          !.calls[i].registrarAddress = receipt.contractAddress,
                                          !.calls[i].step = @ + 1]
           ELSE flow' = [flow EXCEPT !.calls[i].awaited = @ + 1,
                                     !.calls[i].step = @ + 1]
    /\ UNCHANGED exceptFlow

\* await waitForTransaction(hash) and what follows it up to the next await
\* (361-365, 380-382, 396-400, 404-406, 412)
runFullFlow_Receipt(i, receipt) ==
    /\ Running(i)
    /\ flow.calls[i].step <= Len(FlowSteps)
    /\ FlowSteps[flow.calls[i].step].kind = "receipt"
    /\ LET tx == FlowSteps[flow.calls[i].step].arg
           data == extractLogData(receipt)
       IN  IF receipt.rejected
           THEN FlowFails(i, flow.chain)
           ELSE IF tx = "deployRegistry"
           THEN IF data.node = null \/ data.registry = null
                THEN flow' = [flow EXCEPT !.calls[i].awaited = @ + 1,
                                          !.calls[i].node = data.node,
                                          !.calls[i].registry = data.registry,
                                          !.calls[i].pc = "failed",
                                          !.isRegistering = FALSE, !.inFlight = FALSE]
                ELSE flow' = [flow EXCEPT !.calls[i].awaited = @ + 1,
                                          !.calls[i].node = data.node,
                                          !.calls[i].registry = data.registry,
                                          !.calls[i].step = @ + 1]
           ELSE IF tx = "deployL2Registrar"
           THEN IF receipt.contractAddress = null
                THEN flow' = [flow EXCEPT !.calls[i].awaited = @ + 1,
                                          !.calls[i].pc = "failed",
                                          !.isRegistering = FALSE, !.inFlight = FALSE]
                ELSE flow' = [flow EXCEPT !.calls[i].awaited = @ + 1,
                                          !.calls[i].registrarAddress = receipt.contractAddress,
                                          !.calls[i].step = @ + 1]
           ELSE flow' = [flow EXCEPT !.calls[i].awaited = @ + 1,
                                     !.calls[i].step = @ + 1]
    /\ UNCHANGED exceptFlow

\* the summary and the finally block (414-431)
runFullFlow_Summary(i) ==
    /\ Running(i)
    /\ flow.calls[i].step = Len(FlowSteps) + 1
    /\ flow' = [flow EXCEPT !.calls[i].pc = "done",
                            !.isRegistering = FALSE, !.inFlight = FALSE]
    /\ UNCHANGED exceptFlow

NextFlow ==
    \/ \E i \in FlowCalls, ok \in BOOLEAN : runFullFlow_Call(i, ok)
    \/ \E i \in FlowCalls, r \in SwitchResponses : runFullFlow_Switch(i, r)
    \/ \E i \in FlowCalls : runFullFlow_Config(i)
    \/ \E i \in FlowCalls, resolves \in BOOLEAN : runFullFlow_Send(i, resolves)
    \/ \E i \in FlowCalls, receipt \in FlowReceipts : runFullFlow_Receipt(i, receipt)
    \/ \E i \in FlowCalls : runFullFlow_Summary(i)

SpecFlow == InitFlow /\ [][NextFlow]_vars

\* the order of the five transactions
FlowOrder == <<"deployRegistry", "setL2Registry", "deployL2Registrar",
               "addRegistrar", "register">>

SentNames(i) == [k \in 1..Len(flow.calls[i].sent) |-> flow.calls[i].sent[k].tx]

\* C33: what runFullFlow has sent is always a prefix of deployRegistry,
\* setL2Registry, registrar deployment, addRegistrar, register; the receipt
\* of every transaction but the last sent has been awaited; setL2Registry and
\* the registrar deployment are sent only with node and registry extracted.
C33_OrderInv ==
    \A i \in FlowCalls :
        LET c == flow.calls[i] IN
        /\ Len(c.sent) <= Len(FlowOrder)
        /\ SentNames(i) = SubSeq(FlowOrder, 1, Len(c.sent))
        /\ c.awaited <= Len(c.sent)
        /\ Len(c.sent) <= c.awaited + 1
        /\ Len(c.sent) >= 2 => c.node # null /\ c.registry # null

\* C33: a transaction is submitted only when the receipts of all earlier
\* ones have been awaited, and once a step of the flow has failed the
\* execution sends nothing more.
C33_SendStep ==
    \A i \in FlowCalls :
        LET c == flow.calls[i] IN
        /\ Len(c.sent') > Len(c.sent) =>
              /\ c.pc = "run" /\ c.pc' = "run"
              /\ c.awaited = Len(c.sent)
              /\ Len(c.sent') = Len(c.sent) + 1
        /\ (c.pc = "failed" /\ c.run' = c.run) => c' = c
        /\ (c.pc = "run" /\ c.pc' = "failed") => c.sent' = c.sent

C34_SingleInv ==
    /\ Cardinality({i \in FlowCalls : Running(i)}) <= 1
    /\ flow.inFlight <=> (\E i \in FlowCalls : Running(i))
    /\ flow.isRegistering => flow.inFlight

\* C34: a call made while a flow is in flight returns at once, sends nothing
\* and leaves the guard set; the end of the running flow, by success or by
\* error, resets the flag and isRegistering; a call made with the flag clear
\* enters the flow.
C34_GuardStep ==
    \A i \in FlowCalls :
        LET c == flow.calls[i] IN
        /\ (flow.inFlight /\ c.run' # c.run) =>
              /\ c.pc' = "returned" /\ c.sent' = <<>>
              /\ flow.inFlight' /\ flow.isRegistering' = flow.isRegistering
              /\ flow.chain' = flow.chain
              /\ \A j \in FlowCalls \ {i} : flow.calls[j]' = flow.calls[j]
        /\ (c.pc = "run" /\ c.pc' \in {"done", "failed"}) =>
              ~flow.inFlight' /\ ~flow.isRegistering'
        /\ (~flow.inFlight /\ c.run' # c.run) => c.pc' \in {"run", "failed"}

\* C34: runFullFlow is single-flight, a call during a flight is a no-op that
\* keeps the guard, and the guard is released when the flight ends.
C34_SingleFlight == []C34_SingleInv /\ [][C34_GuardStep]_vars

\* C34 witness: a call was turned away during a flight, that flight ended,
\* and a later call is running
C34_Witness ==
    \E i, j \in FlowCalls :
        /\ flow.calls[j].pc = "returned"
        /\ flow.calls[i].pc = "run" /\ flow.calls[i].run = 3
        /\ flow.calls[i].run > flow.calls[j].run

\* the chain each transaction is meant for
IntendedChain(tx) == IF tx = "setL2Registry" THEN Sepolia ELSE BaseSepolia

\* C35: every transaction of runFullFlow was submitted while the wallet's
\* active chain was the chain intended for it.
C35_ChainAtSubmit ==
    \A i \in FlowCalls :
        \A k \in 1..Len(flow.calls[i].sent) :
            flow.calls[i].sent[k].chain = IntendedChain(flow.calls[i].sent[k].tx)

(***************************************************************************)
(* Register page: wallet connection and ENS lookups                        *)
(* (src/unnamed/part_000 139-220, 436-461).  checkWalletConnection and     *)
(* connectWallet are async: every await is a point where wallet events and *)
(* the continuations of other executions may run.                          *)
(***************************************************************************)

\* bound: executions of checkWalletConnection / connectWallet in one behaviour
MaxTasks == 3

Tasks == 1..MaxTasks

WalletAddrs == {"0xA", "0xB"}

\* chain ids the wallet may report: mainnet, Sepolia, Base Sepolia
ChainIds == {"1", "11155111", "84532"}

\* network argument of the /api/ens request (line 141)
NetworkOf(currentChainId) == IF currentChainId = "11155111" THEN "Sepolia" ELSE "Ethereum"

\* the chain id passed to lookupENSFromAPI (173-177, 202-206)
LookupChainId(id) == IF id = "1" \/ id = "11155111" THEN id ELSE "1"

\* first domain the ENS API holds for an address on a network, null if none
EnsDirectory(addr, network) ==
    IF addr = "0xA"
    THEN IF network = "Sepolia" THEN "a-test.eth" ELSE "a.eth"
    ELSE null

TaskIdle == [pc |-> "idle", addr |-> null, chainId |-> null]

TaskDone == [pc |-> "done", addr |-> null, chainId |-> null]

FreeTask == CHOOSE t \in Tasks : wallet.tasks[t].pc = "idle" /\
                                 \A u \in Tasks : u < t => wallet.tasks[u].pc # "idle"

HasFreeTask == \E t \in Tasks : wallet.tasks[t].pc = "idle"

InitWallet ==
    /\ ChainIdle
    /\ retry = Unused
    /\ flow = Unused
    /\ route = Unused
    /\ deriver = Unused
    /\ \E accounts \in {<<>>} \cup {<<a>> : a \in WalletAddrs}, chainId \in ChainIds :
         wallet = [isConnected |-> FALSE, address |-> null, ensName |-> null,
                   hasENS |-> FALSE,
                   accounts |-> accounts, chainId |-> chainId,
                   noAccounts |-> FALSE, mounted |-> FALSE,
                   tasks |-> [t \in Tasks |-> TaskIdle]]

\* a new execution of checkWalletConnection reaches its first await (164)
StartCheck(w) == [w EXCEPT !.tasks[FreeTask] = [TaskIdle EXCEPT !.pc = "listAccounts"]]

\* the mount effect (437-439)
RegisterPage_Mount ==
    /\ ~wallet.mounted
    /\ wallet' = StartCheck([wallet EXCEPT !.mounted = TRUE])
    /\ UNCHANGED exceptWallet

\* the wallet's accounts change and handleAccountsChanged runs (444-453)
handleAccountsChanged(accounts) ==
    /\ wallet.mounted
    /\ accounts # wallet.accounts
    /\ IF Len(accounts) = 0
       THEN wallet' = [wallet EXCEPT !.accounts = accounts, !.noAccounts = TRUE,
                                     !.isConnected = FALSE, !.address = null,
                                     !.ensName = null, !.hasENS = FALSE]
       ELSE /\ HasFreeTask
            /\ wallet' = StartCheck([wallet EXCEPT !.accounts = accounts,
                                                   !.noAccounts = FALSE])
    /\ UNCHANGED exceptWallet

\* the wallet's chain changes and handleChainChanged runs (454)
handleChainChanged(chainId) ==
    /\ wallet.mounted
    /\ chainId # wallet.chainId
    /\ HasFreeTask
    /\ wallet' = StartCheck([wallet EXCEPT !.chainId = chainId])
    /\ UNCHANGED exceptWallet

\* connectWallet up to its first await (183-195)
connectWallet ==
    /\ wallet.mounted
    /\ HasFreeTask
    /\ wallet' = [wallet EXCEPT !.noAccounts = FALSE,
                                !.tasks[FreeTask] = [TaskIdle EXCEPT !.pc = "requestAccounts"]]
    /\ UNCHANGED exceptWallet

\* eth_requestAccounts answers (195-197, 207-219): the user approves an
\* account, or the request is rejected
connectWallet_Accounts(t, approved, addr) ==
    /\ wallet.tasks[t].pc = "requestAccounts"
    /\ IF approved
       THEN LET accounts == IF Len(wallet.accounts) > 0 THEN wallet.accounts ELSE <<addr>>
            IN  wallet' = [wallet EXCEPT !.accounts = accounts,
                              !.tasks[t] = [pc |-> "chainId", addr |-> accounts[1],
                                            chainId |-> null]]
       ELSE wallet' = [wallet EXCEPT !.tasks[t] = TaskDone]
    /\ UNCHANGED exceptWallet

\* provider.listAccounts() answers (164-166)
checkWalletConnection_Accounts(t) ==
    /\ wallet.tasks[t].pc = "listAccounts"
    /\ IF Len(wallet.accounts) > 0
       THEN wallet' = [wallet EXCEPT !.tasks[t] = [pc |-> "chainId",
                                                   addr |-> wallet.accounts[1],
                                                   chainId |-> null]]
       ELSE wallet' = [wallet EXCEPT !.tasks[t] = TaskDone]
    /\ UNCHANGED exceptWallet

\* getCurrentChainId() answers; the connection is published and the ENS
\* request leaves (168-177, 198-206, 141-142)
checkWalletConnection_ChainId(t) ==
    /\ wallet.tasks[t].pc = "chainId"
    /\ wallet' = [wallet EXCEPT !.isConnected = TRUE,
                                !.address = wallet.tasks[t].addr,
                                !.tasks[t].pc = "lookup",
                                !.tasks[t].chainId = LookupChainId(wallet.chainId)]
    /\ UNCHANGED exceptWallet

\* the /api/ens request answers (143-157)
lookupENSFromAPI(t, ok) ==
    /\ wallet.tasks[t].pc = "lookup"
    /\ LET name == IF ok
                   THEN EnsDirectory(wallet.tasks[t].addr, NetworkOf(wallet.tasks[t].chainId))
                   ELSE null
       IN  wallet' = [wallet EXCEPT !.ensName = name, !.hasENS = (name # null),
                                    !.tasks[t] = TaskDone]
    /\ UNCHANGED exceptWallet

NextWallet ==
    \/ RegisterPage_Mount
    \/ \E accounts \in {<<>>} \cup {<<a>> : a \in WalletAddrs} : handleAccountsChanged(accounts)
    \/ \E chainId \in ChainIds : handleChainChanged(chainId)
    \/ connectWallet
    \/ \E t \in Tasks, approved \in BOOLEAN, addr \in WalletAddrs :
          connectWallet_Accounts(t, approved, addr)
    \/ \E t \in Tasks : checkWalletConnection_Accounts(t)
    \/ \E t \in Tasks : checkWalletConnection_ChainId(t)
    \/ \E t \in Tasks, ok \in BOOLEAN : lookupENSFromAPI(t, ok)

SpecWallet == InitWallet /\ [][NextWallet]_vars

\* C36: hasENS is true exactly when ensName is non-null; a non-null ensName
\* is what the ENS lookup gives for the connected address; and from an
\* accountsChanged event with no accounts until the next connection the page
\* shows isConnected = false, address = null, ensName = null, hasENS = false.
C36_WalletState ==
    /\ wallet.hasENS <=> wallet.ensName # null
    /\ wallet.ensName # null =>
          /\ wallet.address # null
          /\ \E id \in ChainIds : wallet.ensName = EnsDirectory(wallet.address, NetworkOf(id))
    /\ wallet.noAccounts =>
          /\ ~wallet.isConnected /\ wallet.address = null
          /\ wallet.ensName = null /\ ~wallet.hasENS

(***************************************************************************)
(* ENS API route (src/blocktrain/app/api/ens/route.ts): GET and            *)
(* fetchDomains.  The route keeps no state between requests; requests in   *)
(* flight at the same time each run their own copy of the handler.         *)
(***************************************************************************)

\* bound: GET requests in flight at the same time
MaxRequests == 2

Requests == 1..MaxRequests

\* JSON values
JsonNull == [type |-> "null"]

JsonString(s) == [type |-> "string", value |-> s]

JsonArray(items) == [type |-> "array", items |-> items]

JsonObject(fields) == [type |-> "object", fields |-> fields]

Domain1 == JsonObject([f \in {"name"} |-> JsonString("a.eth")])

\* JSON.parse(stdout) did not throw
Parsed(value) == [ok |-> TRUE, value |-> value]

SyntaxError == [ok |-> FALSE]

\* what the curl command may print
Stdouts ==
    { "", "<html>502</html>", "null", "[]", "[{\"name\":\"a.eth\"}]",
      "{\"domains\":[{\"name\":\"a.eth\"}]}", "{\"domains\":[]}",
      "{\"domains\":\"none\"}", "{\"data\":{\"domains\":[{\"name\":\"a.eth\"}]}}",
      "{\"data\":null}", "{\"error\":\"rate limited\"}" }

\* JSON.parse on these outputs
JSONparse(stdout) ==
    CASE stdout = "null" -> Parsed(JsonNull)
      [] stdout = "[]" -> Parsed(JsonArray(<<>>))
      [] stdout = "[{\"name\":\"a.eth\"}]" -> Parsed(JsonArray(<<Domain1>>))
      [] stdout = "{\"domains\":[{\"name\":\"a.eth\"}]}" ->
            Parsed(JsonObject([f \in {"domains"} |-> JsonArray(<<Domain1>>)]))
      [] stdout = "{\"domains\":[]}" ->
            Parsed(JsonObject([f \in {"domains"} |-> JsonArray(<<>>)]))
      [] stdout = "{\"domains\":\"none\"}" ->
            Parsed(JsonObject([f \in {"domains"} |-> JsonString("none")]))
      [] stdout = "{\"data\":{\"domains\":[{\"name\":\"a.eth\"}]}}" ->
            Parsed(JsonObject([f \in {"data"} |->
                      JsonObject([g \in {"domains"} |-> JsonArray(<<Domain1>>)])]))
      [] stdout = "{\"data\":null}" -> Parsed(JsonObject([f \in {"data"} |-> JsonNull]))
      [] stdout = "{\"error\":\"rate limited\"}" ->
            Parsed(JsonObject([f \in {"error"} |-> JsonString("rate limited")]))
      [] OTHER -> SyntaxError

\* Array.isArray(v)
IsArray(v) == v # undefined /\ v.type = "array"

\* v.f for a value v that is not null or undefined; undefined when absent
Member(v, f) ==
    IF v.type = "object" /\ f \in DOMAIN v.fields THEN v.fields[f] ELSE undefined

\* truthiness of a JSON value (strings here are non-empty)
Truthy(v) == v # JsonNull /\ v # undefined

\* the value of the address query parameter; null when absent
AddressParams == {null, "", "0xABC", "0xdef"}

\* String.prototype.toLowerCase on the parameters
toLowerCase(s) == IF s = "0xABC" THEN "0xabc" ELSE s

\* fetchDomains returns whatever was parsed
fetchDomains_ReturnsParsed(stdout) ==
    LET p == JSONparse(stdout) IN
    IF ~p.ok THEN JsonArray(<<>>) ELSE p.value

\* fetchDomains after execAsync resolved with stdout (25-37): the domains
fetchDomains(stdout) ==
    LET p == JSONparse(stdout) IN
    IF ~p.ok THEN JsonArray(<<>>)
    ELSE LET parsed == p.value IN
         IF IsArray(parsed) THEN parsed
         ELSE IF Truthy(parsed) /\ IsArray(Member(parsed, "domains"))
         THEN Member(parsed, "domains")
         ELSE IF Truthy(parsed) /\ Truthy(Member(parsed, "data"))
                 /\ IsArray(Member(Member(parsed, "data"), "domains"))
         THEN Member(Member(parsed, "data"), "domains")
         ELSE JsonArray(<<>>)

\* NextResponse.json(body, { status }), status 200 by default
NextResponse(body, status) == [status |-> status, body |-> body]

NoResponse == [status |-> 0, body |-> JsonNull]

RequestIdle ==
    [pc |-> "idle", address |-> null, addressParam |-> "", lookups |-> 0,
     exec |-> "none", stdout |-> "", response |-> NoResponse]

InitRoute ==
    /\ ChainIdle
    /\ retry = Unused
    /\ flow = Unused
    /\ wallet = Unused
    /\ deriver = Unused
    /\ route = [r \in Requests |-> RequestIdle]

\* GET up to the await of fetchDomains (41-52, 7-24)
GET(r, address) ==
    /\ route[r].pc = "idle"
    /\ LET addressParam == toLowerCase(IF address = null THEN "" ELSE address)
       IN  IF addressParam = ""
           THEN route' = [route EXCEPT ![r] =
                    [RequestIdle EXCEPT !.pc = "responded", !.address = address,
                       !.response = NextResponse(
                           JsonObject([f \in {"error"} |->
                                          JsonString("Missing address parameter")]), 400)]]
           ELSE route' = [route EXCEPT ![r] =
                    [RequestIdle EXCEPT !.pc = "exec", !.address = address,
                                        !.addressParam = addressParam, !.lookups = 1]]
    /\ UNCHANGED exceptRoute

\* execAsync rejects: the error reaches the catch block (54-61)
GET_ExecFails(r) ==
    /\ route[r].pc = "exec"
    /\ route' = [route EXCEPT ![r].pc = "responded", ![r].exec = "failed",
                    ![r].response = NextResponse(
                        JsonObject([f \in {"error", "details"} |->
                            IF f = "error" THEN JsonString("Failed to fetch ENS data")
                            ELSE JsonString("Command failed")]), 500)]
    /\ UNCHANGED exceptRoute

\* execAsync resolves with the output of curl (24-37, 52-53)
GET_ExecResolves(r, stdout) ==
    /\ route[r].pc = "exec"
    /\ route' = [route EXCEPT ![r].pc = "responded", ![r].exec = "resolved",
                    ![r].stdout = stdout,
                    ![r].response = NextResponse(fetchDomains(stdout), 200)]
    /\ UNCHANGED exceptRoute

NextRoute ==
    \/ \E r \in Requests, address \in AddressParams : GET(r, address)
    \/ \E r \in Requests : GET_ExecFails(r)
    \/ \E r \in Requests, stdout \in Stdouts : GET_ExecResolves(r, stdout)

SpecRoute == InitRoute /\ [][NextRoute]_vars

\* the output holds a domain list: an array at the top level, under
\* "domains" or under "data.domains"
HoldsDomainList(stdout) ==
    stdout \in { "[]", "[{\"name\":\"a.eth\"}]", "{\"domains\":[{\"name\":\"a.eth\"}]}",
                 "{\"domains\":[]}", "{\"data\":{\"domains\":[{\"name\":\"a.eth\"}]}}" }

\* C37: an answered GET has status 400, 500 or 200: 400 exactly when the
\* address parameter is missing or empty, and then no lookup was started; 500
\* exactly when the lookup command failed, with an error body; 200 exactly
\* when the command printed something, with a JSON array that is empty when
\* the output is not valid JSON or holds no domain list.
C37_AnswerInv ==
    \A r \in Requests :
        LET q == route[r] IN
        q.pc = "responded" =>
            /\ q.response.status \in {400, 500, 200}
            /\ q.response.status = 400 <=> (q.address = null \/ q.address = "")
            /\ q.response.status = 400 => q.lookups = 0 /\ q.exec = "none"
            /\ q.response.status = 500 <=> q.exec = "failed"
            /\ q.response.status = 500 => "error" \in DOMAIN q.response.body.fields
            /\ q.response.status = 200 <=> q.exec = "resolved"
            /\ q.response.status = 200 =>
                  /\ IsArray(q.response.body)
                  /\ ~HoldsDomainList(q.stdout) => q.response.body = JsonArray(<<>>)

\* C37: a request is answered once; its answer does not change afterwards
C37_AnswerStep ==
    \A r \in Requests : route[r].pc = "responded" => route[r]' = route[r]

\* C37: the ENS route answers every GET with exactly one of 400 (no address,
\* no lookup), 500 (lookup command failed) and 200 with a JSON array.
C37_ThreeOutcomes == []C37_AnswerInv /\ [][C37_AnswerStep]_vars

\* C37 witness: one request was answered 200 with an empty array for an
\* output that is JSON but holds no domain list, another was answered 400
C37_Witness ==
    \E r, s \in Requests :
        /\ route[r].pc = "responded" /\ route[r].stdout = "{\"error\":\"rate limited\"}"
        /\ route[r].response = NextResponse(JsonArray(<<>>), 200)
        /\ route[s].pc = "responded" /\ route[s].response.status = 400

(***************************************************************************)
(* L2AddressDeriver (src/contracts/contracts/helpers/L2AddressDeriver.sol):*)
(* three external pure functions.  The state is the last call made.        *)
(***************************************************************************)

\* enum L2Network
BASE == 0

ARBITRUM == 1

OPTIMISM == 2

WORLDCHAIN == 3

POLYGON == 4

GENERIC == 5

L2Network == {BASE, ARBITRUM, OPTIMISM, WORLDCHAIN, POLYGON, GENERIC}

\* the network word of the calldata: the enum values and words outside it
NetworkWords == L2Network \cup {6, 255}

DeriverAddrs == {"0x0000", "0xA", "0xB", "0xC"}

\* chain ids: the ten the contract names, neighbours of them and others
DeriverChainIds ==
    { 84532, 8453, 421614, 42161, 11155420, 10, 4801, 480, 137, 80001,
      0, 1, 84531, 11155111, 2147483647 }

\* POLYGON is not handled
deriveL2Address_NoPolygon(l1Address, network) ==
    IF network \notin L2Network THEN Reverted("AbiDecode")
    ELSE IF network = BASE \/ network = ARBITRUM \/ network = OPTIMISM
            \/ network = WORLDCHAIN \/ network = GENERIC
    THEN Returned(l1Address)
    ELSE Reverted("UnsupportedL2Network")

\* deriveL2Address(l1Address, network); the ABI decoder rejects a word that
\* is not an enum value before the body runs
deriveL2Address(l1Address, network) ==
    IF network \notin L2Network THEN Reverted("AbiDecode")
    ELSE IF network = BASE \/ network = ARBITRUM \/ network = OPTIMISM
            \/ network = WORLDCHAIN \/ network = GENERIC
    THEN Returned(l1Address)
    ELSE IF network = POLYGON
    THEN Returned(l1Address)
    ELSE Reverted("UnsupportedL2Network")

deriveL2AddressByChainId(l1Address, chainId) ==
    IF chainId = 84532 \/ chainId = 8453 THEN Returned(l1Address)
    ELSE IF chainId = 421614 \/ chainId = 42161 THEN Returned(l1Address)
    ELSE IF chainId = 11155420 \/ chainId = 10 THEN Returned(l1Address)
    ELSE IF chainId = 4801 \/ chainId = 480 THEN Returned(l1Address)
    ELSE IF chainId = 137 \/ chainId = 80001 THEN Returned(l1Address)
    ELSE Returned(l1Address)

getNetworkFromChainId(chainId) ==
    IF chainId = 84532 \/ chainId = 8453 THEN Returned(BASE)
    ELSE IF chainId = 421614 \/ chainId = 42161 THEN Returned(ARBITRUM)
    ELSE IF chainId = 11155420 \/ chainId = 10 THEN Returned(OPTIMISM)
    ELSE IF chainId = 4801 \/ chainId = 480 THEN Returned(WORLDCHAIN)
    ELSE IF chainId = 137 \/ chainId = 80001 THEN Returned(POLYGON)
    ELSE Returned(GENERIC)

InitDeriver ==
    /\ ChainIdle
    /\ retry = Unused
    /\ flow = Unused
    /\ wallet = Unused
    /\ route = Unused
    /\ deriver = [fn |-> "none", l1Address |-> "0x0000", arg |-> 0,
                  result |-> Returned(0), viaNetwork |-> Returned(0)]

\* a call of deriveL2Address
Call_deriveL2Address(l1Address, network) ==
    /\ deriver' = [fn |-> "deriveL2Address", l1Address |-> l1Address, arg |-> network,
                   result |-> deriveL2Address(l1Address, network),
                   viaNetwork |-> Returned(0)]
    /\ UNCHANGED exceptDeriver

\* a call of deriveL2AddressByChainId, and beside it the two calls
\* getNetworkFromChainId(chainId) and deriveL2Address(l1Address, its result)
Call_deriveL2AddressByChainId(l1Address, chainId) ==
    /\ deriver' = [fn |-> "deriveL2AddressByChainId", l1Address |-> l1Address,
                   arg |-> chainId,
                   result |-> deriveL2AddressByChainId(l1Address, chainId),
                   viaNetwork |-> deriveL2Address(l1Address,
                                      getNetworkFromChainId(chainId).ret)]
    /\ UNCHANGED exceptDeriver

\* a call of getNetworkFromChainId
Call_getNetworkFromChainId(chainId) ==
    /\ deriver' = [fn |-> "getNetworkFromChainId", l1Address |-> "0x0000",
                   arg |-> chainId, result |-> getNetworkFromChainId(chainId),
                   viaNetwork |-> Returned(0)]
    /\ UNCHANGED exceptDeriver

NextDeriver ==
    \/ \E a \in DeriverAddrs, n \in NetworkWords : Call_deriveL2Address(a, n)
    \/ \E a \in DeriverAddrs, c \in DeriverChainIds : Call_deriveL2AddressByChainId(a, c)
    \/ \E c \in DeriverChainIds : Call_getNetworkFromChainId(c)

SpecDeriver == InitDeriver /\ [][NextDeriver]_vars

\* C38: deriveL2Address returns its address argument for every L2Network
\* value and deriveL2AddressByChainId for every chain id, neither reverts with
\* UnsupportedL2Network, getNetworkFromChainId returns an L2Network value, and
\* deriving through getNetworkFromChainId gives the same result as deriving
\* by chain id.
C38_AddressPreserved ==
    /\ deriver.result # Reverted("UnsupportedL2Network")
    /\ (deriver.fn = "deriveL2Address" /\ deriver.arg \in L2Network) =>
          deriver.result = Returned(deriver.l1Address)
    /\ deriver.fn = "deriveL2AddressByChainId" =>
          /\ deriver.result = Returned(deriver.l1Address)
          /\ deriver.viaNetwork = deriver.result
    /\ deriver.fn = "getNetworkFromChainId" =>
          /\ deriver.result.err = "none"
          /\ deriver.result.ret \in L2Network

\* C38 witness: a Polygon chain id was derived both ways for a non-zero address
C38_Witness ==
    /\ deriver.fn = "deriveL2AddressByChainId"
    /\ deriver.arg = 80001
    /\ deriver.l1Address = "0xA"
    /\ deriver.viaNetwork = Returned("0xA")

====
